---- MODULE Spec2Model ----
(***************************************************************************)
(* Model of vscode-restore-folder: the backup scanner (discovery), the     *)
(* item organizer (tree building) and the file restorer.                   *)
(*                                                                         *)
(* Paths are sequences of segment names; "/w/d/b" is <<"w","d","b">>.      *)
(* Times are integers (milliseconds since the epoch, Date.getTime()).      *)
(***************************************************************************)
EXTENDS Integers, Sequences, FiniteSets, TLC

VARIABLES
    store,      \* backup storage: directory path -> [present, marker, files]
    disk,       \* live filesystem: path -> [type, content]
    faults,     \* [unlistable: set of directories, unreadable: set of files]
    scanner,    \* BackupScanner fields: deletedItems, directoriesScanned, errors
    scanOut,    \* what the last scanAllBackupLocations call settled to
    scanCount,  \* number of completed scanAllBackupLocations calls
    orgIn,      \* the flat list handed to ItemOrganizer.organizeItemsByFolder
    orgOut,     \* the forest it returned: top-level list and folder objects
    restore,    \* the FileRestorer call in flight: item, position, effects
    job,        \* the restoreFolder call in flight: frames of restoreFolderContents
    batch,      \* the restoreSelected command in flight: selection, position, count
    watcher,    \* FileWatcherManager fields, the host's timers and folders
    provider    \* DeletedItemsProvider fields and its refresh() calls in flight

scanVars == <<store, disk, faults, scanner, scanOut, scanCount>>
orgVars == <<orgIn, orgOut>>

restoreVars == <<restore, job, batch>>
outsideRestore == <<faults, scanner, scanOut, scanCount, orgIn, orgOut, watcher, provider>>

vars == <<store, disk, faults, scanner, scanOut, scanCount, orgIn, orgOut, restore,
          job, batch, watcher, provider>>

----------------------------------------------------------------------------
(* Bounds *)

MaxFiles == 2       \* snapshot files per backup directory
MaxMtime == 2       \* distinct modification times
MaxScans == 2       \* scanAllBackupLocations calls per scanner instance
MaxItems == 3       \* records in the flat list given to the organizer
MaxOrganize == 2    \* organizeItemsByFolder calls on one flat list
MaxSelected == 2    \* items in the selection given to restoreSelected
MaxRefresh == 2     \* refresh() calls on one DeletedItemsProvider
MaxFound == 2       \* records one discovery pass finds for one workspace folder
MaxTimers == 3      \* setTimeout calls of one FileWatcherManager

----------------------------------------------------------------------------
(* constants.ts *)

MAX_SCAN_DEPTH == 15
ENTRIES_JSON_FILENAME == "entries.json"
URI_SCHEME_FILE == "file://"
URI_SCHEME_VSCODE_REMOTE == "vscode-remote://"
FIRST_LINES == 10
REFRESH_DEBOUNCE_DELAY_MS == 500

NoError == "<none>"

----------------------------------------------------------------------------
(* Strings and paths *)

\* The spelling of every segment name that takes part in a string comparison.
Spelling ==
    [s \in {"w", "w2", "x", "a", "b", "c", "d", "h1", "a b"} |->
        CASE s = "w"   -> <<"w">>
          [] s = "w2"  -> <<"w", "2">>
          [] s = "x"   -> <<"x">>
          [] s = "a"   -> <<"a">>
          [] s = "b"   -> <<"b">>
          [] s = "c"   -> <<"c">>
          [] s = "d"   -> <<"d">>
          [] s = "h1"  -> <<"h", "1">>
          [] s = "a b" -> <<"a", " ", "b">>]

RECURSIVE PathString(_)
\* The characters of the absolute path string: "/" seg "/" seg ...
PathString(p) ==
    IF p = <<>> THEN <<>>
    ELSE <<"/">> \o Spelling[Head(p)] \o PathString(Tail(p))

\* String.prototype.startsWith
startsWith(s, prefix) ==
    /\ Len(prefix) <= Len(s)
    /\ SubSeq(s, 1, Len(prefix)) = prefix

\* path.join(dir, name)
join(dir, name) == Append(dir, name)

\* path.basename / path.dirname of an absolute path
basename(p) == p[Len(p)]
dirnameAbs(p) == SubSeq(p, 1, Len(p) - 1)

RECURSIVE CommonLen(_, _)
CommonLen(a, b) ==
    IF a = <<>> \/ b = <<>> \/ Head(a) # Head(b) THEN 0
    ELSE 1 + CommonLen(Tail(a), Tail(b))

\* path.relative(from, to) for normalized absolute paths
relative(from, to) ==
    LET k == CommonLen(from, to)
    IN  [i \in 1..(Len(from) - k) |-> ".."] \o SubSeq(to, k + 1, Len(to))

\* True when p lies in the directory subtree of root (segment-wise).
InSubtree(p, root) ==
    /\ Len(root) <= Len(p)
    /\ SubSeq(p, 1, Len(root)) = root

----------------------------------------------------------------------------
(* The environment: workspace, backup roots, backup directories *)

Platform == "linux"
Home == <<"home">>
W == <<"w">>                                   \* the workspace folder /w

WH == <<"w", ".vscode", "history">>            \* workspace-local history
H1 == join(WH, "h1")
N1 == join(H1, "n1")

PLATFORM_PATHS ==
    [WIN32 |-> [CODE_USER_DATA    |-> <<"AppData", "Roaming", "Code", "User">>,
                WORKSPACE_STORAGE |-> <<"AppData", "Roaming", "Code", "User", "workspaceStorage">>,
                GLOBAL_STORAGE    |-> <<"AppData", "Roaming", "Code", "User", "globalStorage">>],
     DARWIN |-> [CODE_USER_DATA    |-> <<"Library", "Application Support", "Code", "User">>,
                 WORKSPACE_STORAGE |-> <<"Library", "Application Support", "Code", "User", "workspaceStorage">>,
                 GLOBAL_STORAGE    |-> <<"Library", "Application Support", "Code", "User", "globalStorage">>],
     LINUX |-> [CODE_USER_DATA    |-> <<".config", "Code", "User">>,
                WORKSPACE_STORAGE |-> <<".config", "Code", "User", "workspaceStorage">>,
                GLOBAL_STORAGE    |-> <<".config", "Code", "User", "globalStorage">>,
                VSCODE_SERVER_HISTORY   |-> <<".vscode-server", "data", "User", "History">>,
                VSCODE_SERVER_WORKSPACE |-> <<".vscode-server", "data", "User", "workspaceStorage">>]]

getGlobalBackupPath ==
    CASE Platform = "win32"  -> Home \o PLATFORM_PATHS.WIN32.CODE_USER_DATA \o <<"History">>
      [] Platform = "darwin" -> Home \o PLATFORM_PATHS.DARWIN.CODE_USER_DATA \o <<"History">>
      [] OTHER               -> Home \o PLATFORM_PATHS.LINUX.CODE_USER_DATA \o <<"History">>

getVSCodeBackupLocations ==
    CASE Platform = "linux" ->
            << Home \o PLATFORM_PATHS.LINUX.WORKSPACE_STORAGE,
               Home \o PLATFORM_PATHS.LINUX.GLOBAL_STORAGE,
               Home \o PLATFORM_PATHS.LINUX.CODE_USER_DATA \o <<"logs">>,
               Home \o PLATFORM_PATHS.LINUX.CODE_USER_DATA \o <<"CachedExtensions">>,
               Home \o PLATFORM_PATHS.LINUX.VSCODE_SERVER_HISTORY,
               Home \o PLATFORM_PATHS.LINUX.VSCODE_SERVER_WORKSPACE >>
      [] Platform = "darwin" ->
            << Home \o PLATFORM_PATHS.DARWIN.WORKSPACE_STORAGE,
               Home \o PLATFORM_PATHS.DARWIN.GLOBAL_STORAGE >>
      [] Platform = "win32" ->
            << Home \o PLATFORM_PATHS.WIN32.WORKSPACE_STORAGE,
               Home \o PLATFORM_PATHS.WIN32.GLOBAL_STORAGE >>
      [] OTHER -> <<>>

GH == getGlobalBackupPath                      \* global history root
G1 == join(GH, "g1")
LS == getVSCodeBackupLocations[1]              \* per-session workspace storage
L1 == join(LS, "l1")

\* Every directory of backup storage the model can hold, in listing order.
AllDirs == <<WH, H1, N1, GH, G1, LS, L1>>
AllDirSet == {AllDirs[i] : i \in 1..Len(AllDirs)}
BackupRoots == {WH, GH, LS}

----------------------------------------------------------------------------
(* Backup storage contents *)

\* A line of a snapshot file: it embeds a file:// URI or it does not.
PlainLine == [hasUri |-> FALSE, path |-> <<>>]
UriLine(p) == [hasUri |-> TRUE, path |-> p]

\* The content of the snapshot file with a given name.
SnapshotContent(name) ==
    CASE name = "s1" -> <<PlainLine>>
      [] name = "s2" -> <<PlainLine, UriLine(<<"w", "d", "b">>)>>
      [] name = "s3" -> [i \in 1..FIRST_LINES |-> PlainLine] \o <<UriLine(<<"w", "a">>)>>
      [] OTHER       -> <<UriLine(<<"w", "%zz">>)>>

SnapshotName(i) ==
    CASE i = 1 -> "s1" [] i = 2 -> "s2" [] i = 3 -> "s3" [] OTHER -> "s4"

\* The resource field of an entries.json: scheme, authority and encoded path.
NoResource == [scheme |-> "", host |-> "", path |-> <<>>]
Res(scheme, host, path) == [scheme |-> scheme, host |-> host, path |-> path]

\* An entries.json: absent, unparsable, or an object with a resource field.
NoMarker       == [kind |-> "none", resource |-> NoResource]
BadJsonMarker  == [kind |-> "unparsable", resource |-> NoResource]
Marker(r)      == [kind |-> "json", resource |-> r]

EmptyDir  == [present |-> TRUE, marker |-> NoMarker, files |-> <<>>]
AbsentDir == [present |-> FALSE, marker |-> NoMarker, files |-> <<>>]

\* Snapshot lists: names by position, any modification times.
FileLists ==
    UNION { { [i \in 1..n |-> [name |-> SnapshotName(i), mtime |-> t[i],
                               content |-> SnapshotContent(SnapshotName(i))]]
              : t \in [1..n -> 1..MaxMtime] }
            : n \in 0..MaxFiles }

----------------------------------------------------------------------------
(* FileSystemUtils: the filesystem probe *)

IsDir(p) == p \in AllDirSet /\ store[p].present

IsSnapshot(p) ==
    /\ Len(p) > 1
    /\ IsDir(dirnameAbs(p))
    /\ \E i \in 1..Len(store[dirnameAbs(p)].files) :
            store[dirnameAbs(p)].files[i].name = basename(p)

IsMarker(p) ==
    /\ Len(p) > 1
    /\ basename(p) = ENTRIES_JSON_FILENAME
    /\ IsDir(dirnameAbs(p))
    /\ store[dirnameAbs(p)].marker.kind # "none"

SnapshotAt(p) ==
    LET fs == store[dirnameAbs(p)].files
    IN  fs[CHOOSE i \in 1..Len(fs) : fs[i].name = basename(p)]

\* existsSync that knows backup storage only, not the live filesystem
fileExistsInStorage(filePath) ==
    \/ IsDir(filePath)
    \/ IsMarker(filePath)
    \/ IsSnapshot(filePath)

\* fs.existsSync wrapped in try/catch
fileExists(filePath) ==
    \/ filePath \in DOMAIN disk
    \/ IsDir(filePath)
    \/ IsMarker(filePath)
    \/ IsSnapshot(filePath)

\* fs.readdirSync(directoryPath, {withFileTypes: true}): the marker, the
\* snapshot files in directory order, then the subdirectories.
Listing(directoryPath) ==
    LET d == store[directoryPath]
        subs == SelectSeq(AllDirs, LAMBDA c :
                    c # <<>> /\ Len(c) = Len(directoryPath) + 1
                    /\ dirnameAbs(c) = directoryPath /\ store[c].present)
    IN  (IF d.marker.kind # "none"
            THEN <<[name |-> ENTRIES_JSON_FILENAME, type |-> "file"]>> ELSE <<>>)
        \o [i \in 1..Len(d.files) |-> [name |-> d.files[i].name, type |-> "file"]]
        \o [i \in 1..Len(subs) |-> [name |-> basename(subs[i]), type |-> "dir"]]

\* readDirectorySafe without its try/catch: readdirSync's failure escapes.
readDirectoryUnsafe(directoryPath) ==
    IF ~IsDir(directoryPath) \/ directoryPath \in faults.unlistable
    THEN [threw |-> TRUE, entries |-> <<>>]
    ELSE [threw |-> FALSE, entries |-> Listing(directoryPath)]

\* readDirectorySafe: any failure of readdirSync becomes an empty listing.
readDirectorySafe(directoryPath) ==
    IF ~IsDir(directoryPath) \/ directoryPath \in faults.unlistable
    THEN [threw |-> FALSE, entries |-> <<>>]
    ELSE [threw |-> FALSE, entries |-> Listing(directoryPath)]

\* readJsonFileSafe: a read or parse failure becomes null.
readJsonFileSafe(filePath) ==
    IF ~IsMarker(filePath) \/ store[dirnameAbs(filePath)].marker.kind = "unparsable"
    THEN [isNull |-> TRUE, resource |-> NoResource]
    ELSE [isNull |-> FALSE, resource |-> store[dirnameAbs(filePath)].marker.resource]

\* getFileStatsSafe: a failure of statSync becomes null.
getFileStatsSafe(filePath) ==
    IF ~IsSnapshot(filePath) \/ filePath \in faults.unreadable
    THEN [isNull |-> TRUE, mtime |-> 0]
    ELSE [isNull |-> FALSE, mtime |-> SnapshotAt(filePath).mtime]

\* isPathInWorkspace: filePath.startsWith(workspacePath) on the path strings
isPathInWorkspace(filePath, workspacePath) ==
    startsWith(PathString(filePath), PathString(workspacePath))

\* decodeURIComponent on one path segment: throws URIError on a malformed escape
decodeSegment(seg) ==
    CASE seg = "a%20b" -> [threw |-> FALSE, seg |-> "a b"]
      [] seg = "%zz"   -> [threw |-> TRUE, seg |-> seg]
      [] OTHER         -> [threw |-> FALSE, seg |-> seg]

decodeURIComponent(path) ==
    [threw |-> \E i \in 1..Len(path) : decodeSegment(path[i]).threw,
     path  |-> [i \in 1..Len(path) |-> decodeSegment(path[i]).seg]]

\* normalizeUriPath: strip the scheme (and the host of a remote URI), decode.
\* A string without a known scheme is returned unchanged.
normalizeUriPath(uriPath) ==
    IF uriPath.scheme = URI_SCHEME_VSCODE_REMOTE /\ uriPath.host # ""
        THEN decodeURIComponent(uriPath.path)
    ELSE IF uriPath.scheme = URI_SCHEME_FILE
        THEN decodeURIComponent(uriPath.path)
    ELSE [threw |-> FALSE, path |-> uriPath.path]

RECURSIVE FirstUriLine(_)
FirstUriLine(lines) ==
    IF lines = <<>> THEN PlainLine
    ELSE IF Head(lines).hasUri THEN Head(lines)
    ELSE FirstUriLine(Tail(lines))

\* lines.slice(0, 10)
FirstLines(content) ==
    SubSeq(content, 1, IF Len(content) < FIRST_LINES THEN Len(content) ELSE FIRST_LINES)

\* decodeURIComponent(match[1]) inside the try of extractOriginalPathFromBackup
DecodedOrNull(dec) ==
    IF dec.threw THEN [isNull |-> TRUE, path |-> <<>>]
    ELSE [isNull |-> FALSE, path |-> dec.path]

\* the loop over the first lines, then the fallback on the directory name
PathFromLines(hit, backupPath, workspacePath) ==
    IF hit.hasUri THEN DecodedOrNull(decodeURIComponent(hit.path))
    ELSE [isNull |-> FALSE,
          path |-> join(workspacePath, basename(dirnameAbs(backupPath)))]

\* extractOriginalPathFromBackup: the first file:// URI in the first lines of
\* the snapshot, else the workspace joined with the backup directory's name;
\* null when reading or decoding throws.
extractOriginalPathFromBackup(backupPath, workspacePath) ==
    IF ~IsSnapshot(backupPath) \/ backupPath \in faults.unreadable
    THEN [isNull |-> TRUE, path |-> <<>>]
    ELSE PathFromLines(FirstUriLine(FirstLines(SnapshotAt(backupPath).content)),
                       backupPath, workspacePath)

----------------------------------------------------------------------------
(* Array.prototype.sort as the runtime performs it on short arrays: find the *)
(* initial run, reverse it when strictly descending, then insert the rest    *)
(* by binary insertion.  cmp[a, b] is the comparator's result.               *)

Reverse(s) == [i \in 1..Len(s) |-> s[Len(s) + 1 - i]]

RECURSIVE RunLength(_, _, _, _)
RunLength(arr, cmp, desc, idx) ==
    IF idx > Len(arr) THEN Len(arr)
    ELSE IF (desc /\ cmp[arr[idx], arr[idx - 1]] >= 0)
            \/ (~desc /\ cmp[arr[idx], arr[idx - 1]] < 0) THEN idx - 1
    ELSE RunLength(arr, cmp, desc, idx + 1)

RECURSIVE InsertionPoint(_, _, _, _, _)
InsertionPoint(arr, cmp, pivot, left, right) ==
    IF left >= right THEN left
    ELSE IF cmp[pivot, arr[left + ((right - left) \div 2) + 1]] < 0
        THEN InsertionPoint(arr, cmp, pivot, left, left + ((right - left) \div 2))
    ELSE InsertionPoint(arr, cmp, pivot, left + ((right - left) \div 2) + 1, right)

\* arr with the element at index start + 1 moved to index pos + 1
MoveTo(arr, start, pos) ==
    SubSeq(arr, 1, pos) \o <<arr[start + 1]>> \o SubSeq(arr, pos + 1, start)
    \o SubSeq(arr, start + 2, Len(arr))

RECURSIVE BinaryInsertionSort(_, _, _)
BinaryInsertionSort(arr, cmp, start) ==
    IF start >= Len(arr) THEN arr
    ELSE BinaryInsertionSort(
            MoveTo(arr, start, InsertionPoint(arr, cmp, arr[start + 1], 0, start)),
            cmp, start + 1)

\* the initial run of length run, reversed when it is descending
MakeRun(arr, desc, run) ==
    IF desc THEN Reverse(SubSeq(arr, 1, run)) \o SubSeq(arr, run + 1, Len(arr))
    ELSE arr

SortFromRun(arr, cmp, desc, run) ==
    BinaryInsertionSort(MakeRun(arr, desc, run), cmp, run)

SortWithDirection(arr, cmp, desc) ==
    SortFromRun(arr, cmp, desc, RunLength(arr, cmp, desc, 3))

ArraySort(arr, cmp) ==
    IF Len(arr) < 2 THEN arr
    ELSE SortWithDirection(arr, cmp, cmp[arr[2], arr[1]] < 0)

Range(s) == {s[i] : i \in 1..Len(s)}

\* statB.mtime.getTime() - statA.mtime.getTime(), 0 when a stat is missing
MtimeDifference(statA, statB) ==
    IF statA.isNull \/ statB.isNull THEN 0
    ELSE statB.mtime - statA.mtime

\* The comparator with its operands swapped: oldest first.
OldestFirstComparator(directory, names) ==
    [p \in Range(names) \X Range(names) |->
        MtimeDifference(getFileStatsSafe(join(directory, p[2])),
                        getFileStatsSafe(join(directory, p[1])))]

\* The comparator of sortBackupFilesByDate and findNewestBackupInHistory:
\* newest first, 0 when either stat is missing.
ByDateComparator(directory, names) ==
    [p \in Range(names) \X Range(names) |->
        MtimeDifference(getFileStatsSafe(join(directory, p[1])),
                        getFileStatsSafe(join(directory, p[2])))]

sortBackupFilesByDate(backupDirectory, fileNames) ==
    ArraySort(fileNames, ByDateComparator(backupDirectory, fileNames))

----------------------------------------------------------------------------
(* BackupScanner.  The scanner's mutable fields are threaded through the    *)
(* operators as st = [deletedItems, directoriesScanned, errors, exc]; exc   *)
(* is the exception in flight (NoError when none).                          *)

NoFile == [threw |-> FALSE, found |-> FALSE, path |-> <<>>, mtime |-> 0]

\* isValidDeletedFile without the existence check.
isInWorkspaceOnly(originalPath) ==
    isPathInWorkspace(originalPath, W)

\* isValidDeletedFile
isValidDeletedFile(originalPath) ==
    /\ isPathInWorkspace(originalPath, W)
    /\ ~fileExists(originalPath)

\* createDeletedItem
createDeletedItem(originalPath, backupPath, mtime) ==
    [uri |-> originalPath,
     relativePath |-> relative(W, originalPath),
     isDirectory |-> FALSE,
     deletionTime |-> mtime,
     backupPath |-> backupPath,
     nativeHistoryEntry |-> [uri |-> originalPath, handle |-> basename(backupPath)]]

\* return stats ? { path: filePath, stats } : null
WithStats(filePath, stats) ==
    IF stats.isNull THEN NoFile
    ELSE [threw |-> FALSE, found |-> TRUE, path |-> filePath, mtime |-> stats.mtime]

\* sortedFiles[0] joined to the directory, with its stats
FirstOf(directory, sortedFiles) ==
    WithStats(join(directory, sortedFiles[1]),
              getFileStatsSafe(join(directory, sortedFiles[1])))

EntryNames(entries) == [i \in 1..Len(entries) |-> entries[i].name]

NewestByDate(backupPath, names) ==
    IF Len(names) = 0 THEN NoFile
    ELSE FirstOf(backupPath, sortBackupFilesByDate(backupPath, names))

NewestAmong(backupPath, rd) ==
    IF rd.threw THEN [NoFile EXCEPT !.threw = TRUE]
    ELSE NewestByDate(backupPath,
            EntryNames(SelectSeq(rd.entries, LAMBDA e :
                e.type = "file" /\ e.name # ENTRIES_JSON_FILENAME)))

\* findNewestBackupFile falling back on the marker file when the directory
\* holds no snapshot
findNewestBackupFileOrMarker(backupPath) ==
    IF \/ NewestAmong(backupPath, readDirectorySafe(backupPath)).found
       \/ ~IsMarker(join(backupPath, ENTRIES_JSON_FILENAME))
    THEN NewestAmong(backupPath, readDirectorySafe(backupPath))
    ELSE [threw |-> FALSE, found |-> TRUE,
          path |-> join(backupPath, ENTRIES_JSON_FILENAME), mtime |-> 0]

\* findNewestBackupFile
findNewestBackupFile(backupPath) ==
    NewestAmong(backupPath, readDirectorySafe(backupPath))

NewestInHistoryByDate(historyPath, names) ==
    IF Len(names) = 0 THEN NoFile
    ELSE FirstOf(historyPath, ArraySort(names, ByDateComparator(historyPath, names)))

NewestInHistoryAmong(historyPath, rd) ==
    IF rd.threw THEN [NoFile EXCEPT !.threw = TRUE]
    ELSE NewestInHistoryByDate(historyPath,
            EntryNames(SelectSeq(rd.entries, LAMBDA e : e.type = "file")))

\* findNewestBackupInHistory
findNewestBackupInHistory(historyPath) ==
    NewestInHistoryAmong(historyPath, readDirectorySafe(historyPath))

\* createDeletedItem and this.deletedItems.push, or the early return on null
PushNewest(st, originalPath, newest) ==
    IF newest.threw THEN [st EXCEPT !.exc = "readdir"]
    ELSE IF ~newest.found THEN st
    ELSE [st EXCEPT !.deletedItems =
            Append(@, createDeletedItem(originalPath, newest.path, newest.mtime))]

\* processEntriesJson once the resource is normalized
ProcessNormalized(st, norm, backupPath) ==
    IF norm.threw THEN [st EXCEPT !.exc = "URIError"]
    ELSE IF ~isValidDeletedFile(norm.path) THEN st
    ELSE PushNewest(st, norm.path, findNewestBackupFile(backupPath))

ProcessEntries(st, entries, backupPath) ==
    IF entries.isNull \/ entries.resource = NoResource THEN st
    ELSE ProcessNormalized(st, normalizeUriPath(entries.resource), backupPath)

\* processEntriesJson
processEntriesJson(st, entriesJsonPath, backupPath) ==
    ProcessEntries(st, readJsonFileSafe(entriesJsonPath), backupPath)

\* The catch block of processFileHistory / scanBackupDirectory.
CatchInto(st, what, path) ==
    IF st.exc = NoError THEN st
    ELSE [st EXCEPT !.errors = Append(@, [what |-> what, path |-> path, cause |-> st.exc]),
                    !.exc = NoError]

\* the fallback of processFileHistory once the original path is extracted
PushFromHistory(st, originalPath, newestBackup) ==
    IF originalPath.isNull \/ originalPath.path = <<>>
       \/ ~isValidDeletedFile(originalPath.path)
    THEN st
    ELSE [st EXCEPT !.deletedItems =
            Append(@, createDeletedItem(originalPath.path,
                                        newestBackup.path, newestBackup.mtime))]

HistoryFallback(st, newestBackup) ==
    IF newestBackup.threw THEN [st EXCEPT !.exc = "readdir"]
    ELSE IF ~newestBackup.found THEN st
    ELSE PushFromHistory(st, extractOriginalPathFromBackup(newestBackup.path, W),
                         newestBackup)

\* processFileHistory
processFileHistory(st, historyPath) ==
    CatchInto(
        IF fileExists(join(historyPath, ENTRIES_JSON_FILENAME))
        THEN processEntriesJson(st, join(historyPath, ENTRIES_JSON_FILENAME), historyPath)
        ELSE HistoryFallback(st, findNewestBackupInHistory(historyPath)),
        "processing file history", historyPath)

RECURSIVE HistoryEntries(_, _, _)
\* the loop of scanHistoryDirectory
HistoryEntries(st, historyDir, entries) ==
    IF entries = <<>> THEN st
    ELSE HistoryEntries(
            IF Head(entries).type # "dir" THEN st
            ELSE processFileHistory(st, join(historyDir, Head(entries).name)),
            historyDir, Tail(entries))

HistoryListing(st, historyDir, rd) ==
    IF rd.threw THEN [st EXCEPT !.exc = "readdir"]
    ELSE HistoryEntries(st, historyDir, rd.entries)

\* scanHistoryDirectory: no try/catch of its own
scanHistoryDirectory(st, historyDir) ==
    HistoryListing(st, historyDir, readDirectorySafe(historyDir))

RECURSIVE scanBackupDirectory(_, _, _)
RECURSIVE SubDirectories(_, _, _, _)

\* the loop of scanBackupDirectory over the listed subdirectories
SubDirectories(st, backupPath, entries, currentDepth) ==
    IF entries = <<>> THEN st
    ELSE SubDirectories(
            IF Head(entries).type # "dir" THEN st
            ELSE scanBackupDirectory(st, join(backupPath, Head(entries).name),
                                     currentDepth + 1),
            backupPath, Tail(entries), currentDepth)

\* the listing step inside the try of scanBackupDirectory
ListAndDescend(st, backupPath, rd, currentDepth) ==
    IF st.exc # NoError THEN st
    ELSE IF rd.threw THEN [st EXCEPT !.exc = "readdir"]
    ELSE SubDirectories(st, backupPath, rd.entries, currentDepth)

\* the marker step inside the try of scanBackupDirectory
MarkerStep(st, backupPath) ==
    IF fileExists(join(backupPath, ENTRIES_JSON_FILENAME))
    THEN processEntriesJson(st, join(backupPath, ENTRIES_JSON_FILENAME), backupPath)
    ELSE st

\* scanBackupDirectory
scanBackupDirectory(st, backupPath, currentDepth) ==
    IF currentDepth > MAX_SCAN_DEPTH THEN st
    ELSE CatchInto(
            ListAndDescend(
                MarkerStep([st EXCEPT !.directoriesScanned = @ + 1], backupPath),
                backupPath, readDirectorySafe(backupPath), currentDepth),
            "scanning", backupPath)

\* scanWorkspaceBackups
scanWorkspaceBackups(st) ==
    IF ~fileExists(join(join(W, ".vscode"), "history")) THEN st
    ELSE scanHistoryDirectory(st, join(join(W, ".vscode"), "history"))

\* scanGlobalBackups
scanGlobalBackups(st) ==
    IF getGlobalBackupPath = <<>> \/ ~fileExists(getGlobalBackupPath) THEN st
    ELSE scanBackupDirectory(st, getGlobalBackupPath, 0)

RECURSIVE BackupLocations(_, _)
\* the loop of scanVSCodeBackupLocations
BackupLocations(st, locations) ==
    IF locations = <<>> THEN st
    ELSE BackupLocations(
            IF fileExists(Head(locations))
            THEN scanBackupDirectory(st, Head(locations), 0)
            ELSE st,
            Tail(locations))

scanVSCodeBackupLocations(st) ==
    BackupLocations(st, getVSCodeBackupLocations)

\* resetScanState without the reset of the item list
resetScanStateKeepingItems(st) ==
    [deletedItems |-> st.deletedItems, directoriesScanned |-> 0, errors |-> <<>>,
     exc |-> NoError]

\* resetScanState
resetScanState(st) ==
    [deletedItems |-> <<>>, directoriesScanned |-> 0, errors |-> <<>>, exc |-> NoError]

\* an awaited call: skipped when an earlier one already rejected
AwaitGlobal(st) == IF st.exc # NoError THEN st ELSE scanGlobalBackups(st)
AwaitLocations(st) == IF st.exc # NoError THEN st ELSE scanVSCodeBackupLocations(st)

\* scanAllBackupLocations: the three scans in order; an exception escaping
\* one of them rejects the call and skips the rest.
scanAllBackupLocations(st) ==
    AwaitLocations(AwaitGlobal(scanWorkspaceBackups(resetScanState(st))))

ScanResult(st) ==
    IF st.exc # NoError
    THEN [rejected |-> TRUE, items |-> <<>>, directoriesScanned |-> 0, errors |-> <<>>]
    ELSE [rejected |-> FALSE, items |-> st.deletedItems,
          directoriesScanned |-> st.directoriesScanned, errors |-> st.errors]

ScannerFields(st) ==
    [deletedItems |-> st.deletedItems, directoriesScanned |-> st.directoriesScanned,
     errors |-> st.errors]

NoScanYet == [rejected |-> FALSE, items |-> <<>>, directoriesScanned |-> 0, errors |-> <<>>]

----------------------------------------------------------------------------
(* Discovery: a scanner over a fixed snapshot of backup storage *)

OriginA   == <<"w", "a">>
OriginDB  == <<"w", "d", "b">>
OriginW2C == <<"w2", "c">>
OriginAB  == <<"w", "a b">>
OriginH1  == <<"w", "h1">>

ResA    == Res(URI_SCHEME_FILE, "", OriginA)
ResDB   == Res(URI_SCHEME_FILE, "", OriginDB)
ResW2C  == Res(URI_SCHEME_FILE, "", OriginW2C)
ResBad  == Res(URI_SCHEME_FILE, "", <<"w", "%zz">>)
ResRem  == Res(URI_SCHEME_VSCODE_REMOTE, "host", <<"w", "a%20b">>)

OneSnapshot(t) ==
    <<[name |-> "s1", mtime |-> t, content |-> SnapshotContent("s1")]>>

\* A directory that holds a marker for /w/a and one snapshot.
FixedBackupDir ==
    [present |-> TRUE, marker |-> Marker(ResA), files |-> OneSnapshot(MaxMtime)]

\* Contents of the per-file history directory /w/.vscode/history/h1
HistoryDirChoices ==
    [marker : {NoMarker, Marker(ResA)}, files : FileLists]
    \cup [marker : {BadJsonMarker, Marker(NoResource), Marker(ResDB), Marker(ResW2C),
                    Marker(ResBad), Marker(ResRem)},
          files : {<<>>, OneSnapshot(1)}]

\* Contents of the global history directory History/g1
GlobalDirChoices ==
    [marker : {Marker(ResA), Marker(ResDB)}, files : FileLists]
    \cup [marker : {NoMarker, Marker(ResBad)}, files : {OneSnapshot(1)}]

\* An entry of the live filesystem: a directory, or a file and its lines.
DirEntry == [type |-> "dir", content |-> <<>>]
FileEntry(content) == [type |-> "file", content |-> content]
OldContent == <<PlainLine, PlainLine, PlainLine>>

DiskChoices ==
    { <<>>,
      (OriginA :> FileEntry(OldContent)),
      (OriginDB :> FileEntry(OldContent)) @@ (<<"w", "d">> :> DirEntry),
      (OriginH1 :> FileEntry(OldContent)) }

NoFaults == [unlistable |-> {}, unreadable |-> {}]

FaultChoices ==
    { [unlistable |-> {d}, unreadable |-> {}] : d \in {WH, H1, GH, G1} }
    \cup { [unlistable |-> {}, unreadable |-> {join(d, SnapshotName(i))}]
            : d \in {H1, G1}, i \in 1..MaxFiles }

AsDir(c) == [present |-> TRUE, marker |-> c.marker, files |-> c.files]

\* Backup storage with the given roots and directory contents.
MakeStore(roots, h, g, nested, session) ==
    [d \in AllDirSet |->
        CASE d = WH -> IF WH \in roots THEN EmptyDir ELSE AbsentDir
          [] d = H1 -> IF WH \in roots THEN AsDir(h) ELSE AbsentDir
          [] d = N1 -> IF WH \in roots THEN nested ELSE AbsentDir
          [] d = GH -> IF GH \in roots THEN EmptyDir ELSE AbsentDir
          [] d = G1 -> IF GH \in roots THEN AsDir(g) ELSE AbsentDir
          [] d = LS -> IF session.present THEN EmptyDir ELSE AbsentDir
          [] d = L1 -> session]

\* A scanner that has not scanned, an organizer that has not been called and
\* a restorer with no call in flight.
ScannerAtRest ==
    /\ scanner = [deletedItems |-> <<>>, directoriesScanned |-> 0, errors |-> <<>>]
    /\ scanOut = NoScanYet
    /\ scanCount = 0

NotOrganized ==
    [calls |-> 0, topLevelItems |-> <<>>, folderMap |-> [keys |-> <<>>, value |-> <<>>]]

OrganizerAtRest ==
    /\ orgIn = <<>>
    /\ orgOut = NotOrganized

NoItem ==
    [uri |-> <<>>, relativePath |-> <<>>, isDirectory |-> FALSE, deletionTime |-> 0,
     backupPath |-> <<>>]

NoMessage == [message |-> "", cause |-> ""]

\* The state of a FileRestorer call at its entry, about to run step pc.
Call(item, pc) ==
    [pc |-> pc, item |-> item, backupContent |-> <<>>, fsOps |-> <<>>,
     opened |-> "no", outcome |-> "pending", error |-> NoMessage]

NoRestore == Call(NoItem, "idle")

NoCount == [restored |-> 0, failed |-> 0]

\* No restoreFolder call in flight.
NoJob ==
    [pc |-> "idle", root |-> NoItem, stack |-> <<>>, awaiting |-> FALSE,
     attempted |-> <<>>, log |-> <<>>,
     outcome |-> "pending", error |-> NoMessage, result |-> NoCount]

\* No restoreSelected command in flight.
NoBatch ==
    [pc |-> "idle", selection |-> <<>>, next |-> 1, awaiting |-> "none",
     restored |-> 0, reported |-> <<>>, attempted |-> <<>>, log |-> <<>>,
     shown |-> "",
     refreshRequested |-> FALSE]

RestorerAtRest ==
    /\ restore = NoRestore
    /\ job = NoJob
    /\ batch = NoBatch

\* A FileWatcherManager as constructed, in a host with the given number of
\* workspace folders: no watcher, no timer, nothing pending.
NewWatcher(workspaceFolders) ==
    [fileWatchers |-> 0, refreshTimer |-> 0, pendingRefresh |-> FALSE,
     timers |-> <<>>, running |-> {}, workspaceFolders |-> workspaceFolders,
     lastCall |-> "constructor", burst |-> FALSE, staleInvoked |-> FALSE,
     lastSettled |-> "none"]

WatcherAtRest == watcher = NewWatcher(1)

NoForest == [folderMap |-> [keys |-> <<>>, value |-> <<>>], topLevelItems |-> <<>>]

\* A DeletedItemsProvider as constructed, in a host with the given workspace
\* folders: both lists empty, no refresh() in flight.
NewProvider(workspaceFolders) ==
    [deletedItems |-> <<>>, organizedItems |-> NoForest,
     workspaceFolders |-> workspaceFolders, calls |-> <<>>, overlapped |-> FALSE]

ProviderAtRest == provider = NewProvider(<<W>>)

ScanInit ==
    /\ \/ \E h \in HistoryDirChoices, g \in GlobalDirChoices,
             extra \in {"none", "nested", "session"} :
            /\ store = MakeStore({WH, GH}, h, g,
                        IF extra = "nested" THEN FixedBackupDir ELSE AbsentDir,
                        IF extra = "session" THEN FixedBackupDir ELSE AbsentDir)
            /\ disk \in DiskChoices
            /\ faults = NoFaults
       \/ \E h \in HistoryDirChoices, g \in {FixedBackupDir, AsDir([marker |-> Marker(ResBad), files |-> <<>>])} :
            /\ store = MakeStore({WH, GH}, h, g, AbsentDir, AbsentDir)
            /\ disk = <<>>
            /\ faults \in FaultChoices
       \/ \E h \in HistoryDirChoices, roots \in {{}, {WH}, {GH}} :
            /\ store = MakeStore(roots, h, FixedBackupDir, AbsentDir, AbsentDir)
            /\ disk = <<>>
            /\ faults = NoFaults
    /\ ScannerAtRest
    /\ OrganizerAtRest
    /\ RestorerAtRest
    /\ WatcherAtRest
    /\ ProviderAtRest

\* One call of scanner.scanAllBackupLocations() on the scanner instance.
ScanAllBackupLocations ==
    /\ scanCount < MaxScans
    /\ \E st \in {scanAllBackupLocations(scanner)} :
        /\ scanner' = ScannerFields(st)
        /\ scanOut' = ScanResult(st)
    /\ scanCount' = scanCount + 1
    /\ UNCHANGED <<store, disk, faults, orgVars, restoreVars, watcher, provider>>

ScanNext == ScanAllBackupLocations

ScanSpec == ScanInit /\ [][ScanNext]_vars

----------------------------------------------------------------------------
(* Properties of discovery *)

ScanDone == scanCount > 0

Items == scanOut.items

Listable(d) == IsDir(d) /\ d \notin faults.unlistable

\* The directories whose entries.json the walk reads: the direct children of
\* the workspace history directory, and the directories below the other roots.
Processed(d) ==
    \/ d = H1 /\ Listable(WH)
    \/ d = G1 /\ Listable(GH)
    \/ d = L1 /\ Listable(LS)

\* d holds a valid marker naming a deleted file inside the workspace, and at
\* least one sibling snapshot.
HoldsDeletedFile(d) ==
    /\ IsDir(d)
    /\ store[d].marker.kind = "json"
    /\ store[d].marker.resource # NoResource
    /\ ~normalizeUriPath(store[d].marker.resource).threw
    /\ InSubtree(normalizeUriPath(store[d].marker.resource).path, W)
    /\ normalizeUriPath(store[d].marker.resource).path \notin DOMAIN disk
    /\ Len(store[d].files) >= 1

LatestMtime(d) ==
    CHOOSE t \in {store[d].files[i].mtime : i \in 1..Len(store[d].files)} :
        \A i \in 1..Len(store[d].files) : store[d].files[i].mtime <= t

RecordsFrom(d) ==
    {i \in 1..Len(Items) : dirnameAbs(Items[i].backupPath) = d}

\* Exactly one record comes from d: the latest sibling, with its mtime.
OneNewestRecord(d) ==
    /\ Cardinality(RecordsFrom(d)) = 1
    /\ \A i \in RecordsFrom(d) :
        /\ Items[i].uri = normalizeUriPath(store[d].marker.resource).path
        /\ IsSnapshot(Items[i].backupPath)
        /\ SnapshotAt(Items[i].backupPath).mtime = LatestMtime(d)
        /\ Items[i].deletionTime = LatestMtime(d)

AllStatsSucceed(d) ==
    \A i \in 1..Len(store[d].files) :
        join(d, store[d].files[i].name) \notin faults.unreadable

\* C1: the item list of one discovery pass holds at most one record per
\* distinct origin path (the newest candidate is the one kept).
C1_OneRecordPerOrigin ==
    ScanDone =>
        \A i, j \in 1..Len(Items) : Items[i].uri = Items[j].uri => i = j

ScanFailureOccurred ==
    \/ \E r \in BackupRoots : IsDir(r) /\ r \in faults.unlistable
    \/ \E d \in {H1, G1, L1} :
        /\ Processed(d)
        /\ \/ store[d].marker.kind = "unparsable"
           \/ /\ HoldsDeletedFile(d)
              /\ d \in faults.unlistable
           \/ /\ HoldsDeletedFile(d)
              /\ Len(store[d].files) = 1
              /\ ~AllStatsSucceed(d)

\* C5: every listing, parse or stat failure of a pass has an entry in the
\* returned error list.
C5_FailuresAreReported ==
    (ScanDone /\ ScanFailureOccurred) => Len(scanOut.errors) > 0

C7_RecordsInsideWorkspace ==
    ScanDone =>
        \A i \in 1..Len(Items) :
            /\ InSubtree(Items[i].uri, W)
            /\ (Items[i].relativePath = <<>> \/ Items[i].relativePath[1] # "..")

\* C8: no record is produced for an origin path at which a filesystem entry
\* exists at scan time, on the marker path and on the fallback path.
C8_NoRecordForExistingPath ==
    ScanDone => \A i \in 1..Len(Items) : Items[i].uri \notin DOMAIN disk

\* /w/d/b exists; a marker in the global history names it and the newest
\* snapshot of the workspace history directory (no marker) embeds it.
C8_Witness ==
    /\ ScanDone
    /\ faults = NoFaults
    /\ OriginDB \in DOMAIN disk
    /\ Processed(G1) /\ store[G1].marker = Marker(ResDB) /\ Len(store[G1].files) >= 1
    /\ Processed(H1) /\ store[H1].marker = NoMarker /\ Len(store[H1].files) = 2
    /\ store[H1].files[2].mtime > store[H1].files[1].mtime
    /\ Len(Items) = 0

\* d holds a valid marker naming a deleted file inside the workspace and no
\* sibling snapshot.
HoldsMarkerOnly(d) ==
    /\ IsDir(d)
    /\ store[d].marker.kind = "json"
    /\ store[d].marker.resource # NoResource
    /\ ~normalizeUriPath(store[d].marker.resource).threw
    /\ InSubtree(normalizeUriPath(store[d].marker.resource).path, W)
    /\ normalizeUriPath(store[d].marker.resource).path \notin DOMAIN disk
    /\ Len(store[d].files) = 0

\* C20: a backup directory whose marker names a deleted workspace file and
\* which holds no sibling snapshot yields no record, and every record of a
\* pass is a file record whose backupPath is a snapshot file in storage.
C20_RecordsAreSnapshotsOfFiles ==
    ScanDone =>
        /\ \A d \in AllDirSet : HoldsMarkerOnly(d) => RecordsFrom(d) = {}
        /\ \A i \in 1..Len(Items) :
            /\ ~Items[i].isDirectory
            /\ Items[i].backupPath # <<>>
            /\ IsSnapshot(Items[i].backupPath)

\* The workspace history directory holds a marker for the deleted /w/a and
\* nothing else; the pass processed it and took its one record elsewhere.
C20_Witness ==
    /\ ScanDone
    /\ HoldsMarkerOnly(H1) /\ Processed(H1) /\ Listable(H1)
    /\ store[H1].marker = Marker(ResA)
    /\ RecordsFrom(H1) = {}
    /\ Len(Items) = 1

\* d lies at most MAX_SCAN_DEPTH levels below a candidate root that exists.
WithinDepthOfARoot(d) ==
    \E r \in BackupRoots :
        /\ IsDir(r)
        /\ InSubtree(d, r)
        /\ Len(d) - Len(r) <= MAX_SCAN_DEPTH
        /\ \A n \in Len(r)..Len(d) : IsDir(SubSeq(d, 1, n))

\* C21: when nothing fails, every directory within the depth bound below a
\* candidate root (the workspace history directory, the global history, the
\* platform storage directories) has its marker processed: if it holds a
\* marker for a deleted workspace file and a snapshot, a record comes from it.
C21_MarkersBelowEveryRootProcessed ==
    (ScanDone /\ faults = NoFaults) =>
        \A d \in AllDirSet :
            (HoldsDeletedFile(d) /\ WithinDepthOfARoot(d)) => RecordsFrom(d) # {}

\* The fields of a BackupScanner as constructed.
NewScanner == [deletedItems |-> <<>>, directoriesScanned |-> 0, errors |-> <<>>]

\* C18: over unchanged storage a pass of a scanner that has scanned before
\* returns what its previous pass returned (the same records with their
\* paths, snapshots and deletionTimes, in the same order, and the same error
\* list) and leaves the same fields; the first pass of every scanner starts
\* from the fields of a new scanner, so two scanners agree as well.
C18_RepeatedPassIsFreshPass ==
    [][/\ scanCount = 0 => scanner = NewScanner
       /\ scanCount > 0 => (scanOut' = scanOut /\ scanner' = scanner)]_vars

\* A second pass of the same scanner, the first having left records and an
\* error in the scanner's fields.
C18_Witness ==
    /\ scanCount = 2
    /\ Len(Items) >= 1
    /\ Len(scanner.deletedItems) >= 1

----------------------------------------------------------------------------
(* ItemOrganizer: the flat list becomes a forest *)

\* path.dirname of a relative path; <<>> stands for "."
dirname(p) == IF Len(p) <= 1 THEN <<>> ELSE SubSeq(p, 1, Len(p) - 1)

isRootDirectory(dirPath) == dirPath = <<>>

isNotRootDirectory(dirPath) == ~isRootDirectory(dirPath)

\* Set.prototype.add: a Set keeps insertion order and holds a value once
SetAdd(pathSet, p) == IF p \in Range(pathSet) THEN pathSet ELSE Append(pathSet, p)

RECURSIVE addPathHierarchy(_, _)
addPathHierarchy(dirPath, pathSet) ==
    IF isNotRootDirectory(dirPath)
    THEN addPathHierarchy(dirname(dirPath), SetAdd(pathSet, dirPath))
    ELSE pathSet

RECURSIVE ExtractFrom(_, _, _)
ExtractFrom(deletedItems, i, allPaths) ==
    IF i > Len(deletedItems) THEN allPaths
    ELSE ExtractFrom(deletedItems, i + 1,
            IF isNotRootDirectory(dirname(deletedItems[i].relativePath))
            THEN addPathHierarchy(dirname(deletedItems[i].relativePath), allPaths)
            ELSE allPaths)

extractAllDirectoryPaths(deletedItems) == ExtractFrom(deletedItems, 1, <<>>)

\* A DeletedItem object held in a children array or in the top-level array:
\* the i-th record of the flat list, or the folder object made for a path.
FileRef(i, item) ==
    [isDirectory |-> FALSE, relativePath |-> item.relativePath, index |-> i]
FolderRef(dirPath) ==
    [isDirectory |-> TRUE, relativePath |-> dirPath, index |-> 0]

createFolderItem(workspaceRoot, dirPath) ==
    [uri |-> workspaceRoot \o dirPath,
     relativePath |-> dirPath,
     isDirectory |-> TRUE,
     deletionTime |-> 0,
     backupPath |-> <<>>,
     children |-> <<>>]

\* The Map after the loop of createFolderMap: one folder object per path,
\* keys in the insertion order of allPaths.
NewFolderMap(workspaceRoot, allPaths) ==
    [keys  |-> allPaths,
     value |-> [p \in Range(allPaths) |-> createFolderItem(workspaceRoot, p)]]

\* folderItem.children.push(child)
PushChild(folderMap, dirPath, child) ==
    [folderMap EXCEPT !.value[dirPath].children = Append(@, child)]

RECURSIVE PopulateFrom(_, _, _)
PopulateFrom(folderMap, deletedItems, i) ==
    IF i > Len(deletedItems) THEN folderMap
    ELSE PopulateFrom(
            IF /\ isNotRootDirectory(dirname(deletedItems[i].relativePath))
               /\ dirname(deletedItems[i].relativePath) \in Range(folderMap.keys)
            THEN PushChild(folderMap, dirname(deletedItems[i].relativePath),
                           FileRef(i, deletedItems[i]))
            ELSE folderMap,
            deletedItems, i + 1)

populateFoldersWithFiles(folderMap, deletedItems) ==
    PopulateFrom(folderMap, deletedItems, 1)

\* child.deletionTime of an object held in a children array
DeletionTimeOf(child, folderMap, deletedItems) ==
    IF child.isDirectory THEN folderMap.value[child.relativePath].deletionTime
    ELSE deletedItems[child.index].deletionTime

RECURSIVE LatestFrom(_, _, _, _, _)
LatestFrom(children, i, latest, folderMap, deletedItems) ==
    IF i > Len(children) THEN latest
    ELSE LatestFrom(children, i + 1,
            IF DeletionTimeOf(children[i], folderMap, deletedItems) > latest
            THEN DeletionTimeOf(children[i], folderMap, deletedItems)
            ELSE latest,
            folderMap, deletedItems)

\* children.reduce(..., new Date(0))
findLatestDeletionTime(children, folderMap, deletedItems) ==
    LatestFrom(children, 1, 0, folderMap, deletedItems)

\* The body of the loop of updateFolderTimestamps for one folder object.
UpdateTimestamp(folderMap, dirPath, latestDeletion) ==
    IF /\ Len(folderMap.value[dirPath].children) > 0
       /\ latestDeletion > folderMap.value[dirPath].deletionTime
    THEN [folderMap EXCEPT !.value[dirPath].deletionTime = latestDeletion]
    ELSE folderMap

RECURSIVE UpdateFrom(_, _, _)
UpdateFrom(folderMap, deletedItems, k) ==
    IF k > Len(folderMap.keys) THEN folderMap
    ELSE UpdateFrom(
            UpdateTimestamp(folderMap, folderMap.keys[k],
                findLatestDeletionTime(folderMap.value[folderMap.keys[k]].children,
                                       folderMap, deletedItems)),
            deletedItems, k + 1)

updateFolderTimestamps(folderMap, deletedItems) ==
    UpdateFrom(folderMap, deletedItems, 1)

createFolderMap(workspaceRoot, deletedItems) ==
    updateFolderTimestamps(
        populateFoldersWithFiles(
            NewFolderMap(workspaceRoot, extractAllDirectoryPaths(deletedItems)),
            deletedItems),
        deletedItems)

RECURSIVE RootItemsFrom(_, _)
RootItemsFrom(deletedItems, i) ==
    IF i > Len(deletedItems) THEN <<>>
    ELSE (IF isRootDirectory(dirname(deletedItems[i].relativePath))
          THEN <<FileRef(i, deletedItems[i])>> ELSE <<>>)
         \o RootItemsFrom(deletedItems, i + 1)

extractRootItems(deletedItems) == RootItemsFrom(deletedItems, 1)

\* The names the organizer compares, in the order String.localeCompare
\* gives them.
CollationOrder == <<"a", "b", "c", "x.txt", "y.txt", "z.txt">>

CollationRank(name) ==
    CHOOSE k \in 1..Len(CollationOrder) : CollationOrder[k] = name

\* nameA.localeCompare(nameB)
localeCompare(nameA, nameB) ==
    IF CollationRank(nameA) < CollationRank(nameB) THEN -1
    ELSE IF CollationRank(nameA) > CollationRank(nameB) THEN 1
    ELSE 0

getDisplayName(item) == basename(item.relativePath)

\* The comparator sortItems hands to Array.prototype.sort.
FoldersFirstComparator(items) ==
    [p \in Range(items) \X Range(items) |->
        IF p[1].isDirectory # p[2].isDirectory
        THEN (IF p[1].isDirectory THEN -1 ELSE 1)
        ELSE localeCompare(getDisplayName(p[1]), getDisplayName(p[2]))]

sortItems(items) == ArraySort(items, FoldersFirstComparator(items))

\* folderItem.children = this.sortItems(folderItem.children)
sortChildrenInFolder(folderMap, folderPath) ==
    [folderMap EXCEPT !.value[folderPath].children = sortItems(@)]

\* isTopLevelFolder with the test of the Map not negated
isTopLevelFolderWhenParentKnown(parentPath, folderMap) ==
    isRootDirectory(parentPath) \/ parentPath \in Range(folderMap.keys)

isTopLevelFolder(parentPath, folderMap) ==
    isRootDirectory(parentPath) \/ parentPath \notin Range(folderMap.keys)

addFolderToParent(folderPath, folderMap) ==
    IF dirname(folderPath) \in Range(folderMap.keys)
    THEN PushChild(folderMap, dirname(folderPath), FolderRef(folderPath))
    ELSE folderMap

\* The body of the loop of buildHierarchy for one entry of the Map.
VisitFolder(h, folderPath) ==
    IF isTopLevelFolder(dirname(folderPath), h.folderMap)
    THEN [folderMap |-> sortChildrenInFolder(h.folderMap, folderPath),
          topLevelItems |-> Append(h.topLevelItems, FolderRef(folderPath))]
    ELSE [folderMap |-> addFolderToParent(folderPath, h.folderMap),
          topLevelItems |-> h.topLevelItems]

RECURSIVE BuildFrom(_, _)
BuildFrom(h, k) ==
    IF k > Len(h.folderMap.keys) THEN h
    ELSE BuildFrom(VisitFolder(h, h.folderMap.keys[k]), k + 1)

buildHierarchy(folderMap, rootItems) ==
    BuildFrom([folderMap |-> folderMap, topLevelItems |-> rootItems], 1)

\* return this.sortItems(topLevelItems), with the folder objects it refers to
SortTopLevel(h) == [h EXCEPT !.topLevelItems = sortItems(@)]

organizeItemsByFolder(workspaceRoot, deletedItems) ==
    IF Len(deletedItems) = 0
    THEN [folderMap |-> [keys |-> <<>>, value |-> <<>>], topLevelItems |-> <<>>]
    ELSE SortTopLevel(buildHierarchy(createFolderMap(workspaceRoot, deletedItems),
                                     extractRootItems(deletedItems)))

----------------------------------------------------------------------------
(* Tree building: an organizer over a flat list of file records *)

\* Relative paths of deleted files below the workspace folder.
RelativePathChoices ==
    { <<"x.txt">>, <<"a", "x.txt">>, <<"a", "b", "y.txt">>, <<"a", "b", "z.txt">>,
      <<"c", "y.txt">> }

\* Records as the scanner makes them: a file below W with a snapshot in H1.
ItemChoices ==
    { createDeletedItem(W \o rel, join(H1, "s1"), t) :
        rel \in RelativePathChoices, t \in 1..MaxMtime }

FlatLists == UNION { [1..n -> ItemChoices] : n \in 0..MaxItems }

EmptyStorage ==
    /\ store = MakeStore({}, AbsentDir, AbsentDir, AbsentDir, AbsentDir)
    /\ disk = <<>>
    /\ faults = NoFaults

OrgInit ==
    /\ orgIn \in FlatLists
    /\ orgOut = NotOrganized
    /\ EmptyStorage
    /\ ScannerAtRest
    /\ RestorerAtRest
    /\ WatcherAtRest
    /\ ProviderAtRest

\* an organizer whose final sortItems is handed the caller's array
CallSortingTheInput(workspaceRoot, deletedItems) ==
    [forest |-> organizeItemsByFolder(workspaceRoot, deletedItems),
     deletedItems |-> sortItems(deletedItems)]

\* What a call leaves behind: the forest it returns and the caller's array.
\* The arrays sortItems sorts in place are the copy made by buildHierarchy
\* and the children arrays of the new folder objects.
CallOrganizer(workspaceRoot, deletedItems) ==
    [forest |-> organizeItemsByFolder(workspaceRoot, deletedItems),
     deletedItems |-> deletedItems]

\* One call of organizer.organizeItemsByFolder(deletedItems).
OrganizeItemsByFolder ==
    /\ orgOut.calls < MaxOrganize
    /\ \E call \in {CallOrganizer(W, orgIn)} :
        /\ orgOut' = [calls |-> orgOut.calls + 1,
                      topLevelItems |-> call.forest.topLevelItems,
                      folderMap |-> call.forest.folderMap]
        /\ orgIn' = call.deletedItems
    /\ UNCHANGED <<scanVars, restoreVars, watcher, provider>>

OrgNext == OrganizeItemsByFolder

OrgSpec == OrgInit /\ [][OrgNext]_vars

----------------------------------------------------------------------------
(* Properties of tree building *)

Organized == orgOut.calls > 0

FolderPaths == Range(orgOut.folderMap.keys)

ChildrenOf(dirPath) == orgOut.folderMap.value[dirPath].children

RECURSIVE FilesBelow(_)
\* The flat-list indices of the file nodes at any depth below a folder node.
FilesBelow(dirPath) ==
    UNION { IF ChildrenOf(dirPath)[k].isDirectory
            THEN FilesBelow(ChildrenOf(dirPath)[k].relativePath)
            ELSE {ChildrenOf(dirPath)[k].index}
            : k \in 1..Len(ChildrenOf(dirPath)) }

Latest(times) == CHOOSE t \in times : \A u \in times : u <= t

\* Folders before files, and names in collation order within each kind.
InDisplayOrder(items) ==
    \A i, j \in 1..Len(items) :
        i < j =>
            /\ items[i].isDirectory \/ ~items[j].isDirectory
            /\ items[i].isDirectory = items[j].isDirectory
                => CollationRank(getDisplayName(items[i]))
                    <= CollationRank(getDisplayName(items[j]))

\* C2: in the returned forest every directory node's deletionTime is the
\* latest deletionTime among all the file nodes below it, at any depth.
C2_FolderTimeIsLatestDescendant ==
    Organized =>
        \A d \in FolderPaths :
            orgOut.folderMap.value[d].deletionTime
                = Latest({orgIn[i].deletionTime : i \in FilesBelow(d)})

\* C3: the top-level list and the children list of every directory node hold
\* directories before files, each kind ordered by basename, for every order
\* of the flat list.
C3_EveryListInDisplayOrder ==
    Organized =>
        /\ InDisplayOrder(orgOut.topLevelItems)
        /\ \A d \in FolderPaths : InDisplayOrder(ChildrenOf(d))

\* The places of the returned forest: position k of the top-level list is
\* <<root, k>>, position k of the children of folder d is <<d, k>>.
Slots ==
    ({<<>>} \X (1..Len(orgOut.topLevelItems)))
        \cup UNION { {d} \X (1..Len(ChildrenOf(d))) : d \in FolderPaths }

NodeIn(slot) ==
    IF isRootDirectory(slot[1]) THEN orgOut.topLevelItems[slot[2]]
    ELSE ChildrenOf(slot[1])[slot[2]]

SlotsOf(node) == {slot \in Slots : NodeIn(slot) = node}

\* The node is at exactly one place, in the list of the given directory.
PlacedOnceIn(node, parentPath) ==
    /\ Cardinality(SlotsOf(node)) = 1
    /\ \A slot \in SlotsOf(node) : slot[1] = parentPath

AncestorPaths(relativePath) ==
    {SubSeq(relativePath, 1, n) : n \in 1..(Len(relativePath) - 1)}

\* C19: the returned forest places every input record exactly once, at top
\* level when its parent directory is the root and otherwise among the
\* children of the directory node of its parent path; there is exactly one
\* directory node per ancestor path of the records, each placed exactly
\* once, in its parent's node or at top level; no other node is in the forest.
C19_StrictForestOfTheRecords ==
    Organized =>
        /\ \A i \in 1..Len(orgIn) :
            PlacedOnceIn(FileRef(i, orgIn[i]), dirname(orgIn[i].relativePath))
        /\ FolderPaths = UNION {AncestorPaths(orgIn[i].relativePath) : i \in 1..Len(orgIn)}
        /\ Len(orgOut.folderMap.keys) = Cardinality(FolderPaths)
        /\ \A d \in FolderPaths :
            /\ PlacedOnceIn(FolderRef(d), dirname(d))
            /\ orgOut.folderMap.value[d].isDirectory
            /\ orgOut.folderMap.value[d].relativePath = d
        /\ \A slot \in Slots :
            IF NodeIn(slot).isDirectory
            THEN NodeIn(slot) \in {FolderRef(d) : d \in FolderPaths}
            ELSE NodeIn(slot) \in {FileRef(i, orgIn[i]) : i \in 1..Len(orgIn)}

\* A forest with a record at top level, a record in a folder two levels down
\* and a folder whose only child is a folder.
C19_Witness ==
    /\ Organized
    /\ \E i \in 1..Len(orgIn) : orgIn[i].relativePath = <<"x.txt">>
    /\ \E i \in 1..Len(orgIn) : orgIn[i].relativePath = <<"a", "b", "y.txt">>
    /\ ChildrenOf(<<"a">>) = <<FolderRef(<<"a", "b">>)>>
    /\ Len(orgOut.topLevelItems) = 2

----------------------------------------------------------------------------
(* FileRestorer: restoreItem, one step per awaited call *)

\* throw new Error(message), the cause being the error it wraps, if any
Reject(r, message, cause) ==
    [r EXCEPT !.pc = "settled", !.outcome = "rejected",
              !.error = [message |-> message, cause |-> cause]]

Resolve(r) == [r EXCEPT !.pc = "settled", !.outcome = "resolved"]

\* item.backupPath, undefined and '' both read as the empty path
BackupPathOf(item) ==
    IF "backupPath" \in DOMAIN item THEN item.backupPath ELSE <<>>

\* the truthiness of item.backupPath
HasBackupPath(item) == BackupPathOf(item) # <<>>

NoBackupPathMessage == "No backup path available for"
ReadFailedMessage == "Failed to read backup file"
IoCause == "EIO"

\* restoreFile with the directory made before the backup path is looked at.
restoreFileUnguarded(item) ==
    Call(item, "ensureDirectoryExists")

\* restoreFile up to its first await
restoreFile(item) ==
    IF ~HasBackupPath(item)
    THEN Reject(Call(item, "settled"), NoBackupPathMessage, "")
    ELSE Call(item, "ensureDirectoryExists")

\* restoreItem up to its first await
restoreItem(item) ==
    IF item.isDirectory THEN Call(item, "restoreEmptyDirectory")
    ELSE restoreFile(item)

\* One call on vscode.workspace.fs as the restorer sees it.
FsOp(op, path, ok) ==
    [op |-> op, path |-> path, ok |-> ok, existed |-> path \in DOMAIN disk]

Issue(r, op, path, ok) == [r EXCEPT !.fsOps = Append(@, FsOp(op, path, ok))]

Prefixes(p) == {SubSeq(p, 1, k) : k \in 1..Len(p)}

\* A file stands where a directory of the path would have to be.
BlockedByFile(d, p) == \E q \in Prefixes(p) : q \in DOMAIN d /\ d[q].type = "file"

\* vscode.workspace.fs.createDirectory: it may fail, and fails on a file.
CreateDirectoryOutcomes(d, p) == IF BlockedByFile(d, p) THEN {FALSE} ELSE BOOLEAN

createDirectory(d, p) ==
    [q \in DOMAIN d \cup Prefixes(p) |-> IF q \in DOMAIN d THEN d[q] ELSE DirEntry]

\* vscode.workspace.fs.readFile of a snapshot: it may fail, and fails when
\* the snapshot is missing.
ReadFileOutcomes(p) == IF p # <<>> /\ IsSnapshot(p) THEN BOOLEAN ELSE {FALSE}

readFile(p) == SnapshotAt(p).content

\* vscode.workspace.fs.writeFile: it may fail, and fails on a directory.
WriteFileOutcomes(d, p) ==
    IF BlockedByFile(d, dirnameAbs(p)) \/ (p \in DOMAIN d /\ d[p].type = "dir")
    THEN {FALSE} ELSE BOOLEAN

\* writeFile that leaves a file that is already there as it is.
writeFileIfAbsent(d, p, content) ==
    [q \in DOMAIN d \cup Prefixes(p) |->
        IF q \in DOMAIN d THEN d[q]
        ELSE IF q = p THEN FileEntry(content) ELSE DirEntry]

writeFile(d, p, content) ==
    [q \in DOMAIN d \cup Prefixes(p) |->
        IF q = p THEN FileEntry(content)
        ELSE IF q \in DOMAIN d THEN d[q] ELSE DirEntry]

\* ensureDirectoryExists without its try/catch
ensureDirectoryExistsOrThrow(r, ok) ==
    IF ok
    THEN [Issue(r, "createDirectory", dirnameAbs(r.item.uri), ok)
            EXCEPT !.pc = "readBackupContent"]
    ELSE Reject(Issue(r, "createDirectory", dirnameAbs(r.item.uri), ok), IoCause, IoCause)

\* ensureDirectoryExists: the outcome of createDirectory is logged and dropped
ensureDirectoryExists(r, ok) ==
    [Issue(r, "createDirectory", dirnameAbs(r.item.uri), ok)
        EXCEPT !.pc = "readBackupContent"]

\* readBackupContent that logs a failure and returns no content
readBackupContentOrEmpty(r, ok) ==
    [Issue(r, "readFile", BackupPathOf(r.item), ok)
        EXCEPT !.pc = "writeFile",
               !.backupContent = IF ok THEN readFile(BackupPathOf(r.item)) ELSE <<>>]

\* readBackupContent: the content, or an error that wraps the cause
readBackupContent(r, ok) ==
    IF ok
    THEN [Issue(r, "readFile", BackupPathOf(r.item), ok)
            EXCEPT !.pc = "writeFile", !.backupContent = readFile(BackupPathOf(r.item))]
    ELSE Reject(Issue(r, "readFile", BackupPathOf(r.item), ok), ReadFailedMessage, IoCause)

\* await vscode.workspace.fs.writeFile(item.uri, backupContent)
AfterWriteFile(r, ok) ==
    IF ok
    THEN [Issue(r, "writeFile", r.item.uri, ok) EXCEPT !.pc = "attemptToOpenRestoredFile"]
    ELSE Reject(Issue(r, "writeFile", r.item.uri, ok), IoCause, IoCause)

\* attemptToOpenRestoredFile: a failure of vscode.open is logged and dropped
attemptToOpenRestoredFile(r, ok) ==
    Resolve([r EXCEPT !.opened = IF ok THEN "ok" ELSE "failed"])

\* restoreEmptyDirectory: createDirectory on the node's own path
restoreEmptyDirectory(r, ok) ==
    IF ok THEN Resolve(Issue(r, "createDirectory", r.item.uri, ok))
    ELSE Reject(Issue(r, "createDirectory", r.item.uri, ok), IoCause, IoCause)

----------------------------------------------------------------------------
(* FileRestorer: restoreFolder and the frames of restoreFolderContents *)

\* the truthiness of item.children: an array, even an empty one, is truthy
HasChildren(item) == "children" \in DOMAIN item

InvalidFolderMessage == "Invalid folder item for restoration"
FolderFailedMessage == "Restored {restored} items, but {failed} items failed to restore"

\* A call of restoreFolderContents(folderItem): its counters and the node it
\* is at, 0 for the folder itself and k for folderItem.children[k].
Frame(folderItem) == [folderItem |-> folderItem, next |-> 0, restored |-> 0, failed |-> 0]

\* The node a frame is at.
NodeAt(frame) ==
    IF frame.next = 0 THEN frame.folderItem ELSE frame.folderItem.children[frame.next]

Top(stack) == stack[Len(stack)]

ReplaceTop(stack, frame) == [stack EXCEPT ![Len(stack)] = frame]

\* restoreFolder that takes an empty children list for a missing one
restoreFolderRequiringChildren(folderItem) ==
    IF ~folderItem.isDirectory \/ ~HasChildren(folderItem) \/ folderItem.children = <<>>
    THEN [NoJob EXCEPT !.pc = "settled", !.root = folderItem, !.outcome = "rejected",
                       !.error = [message |-> InvalidFolderMessage, cause |-> ""]]
    ELSE [NoJob EXCEPT !.pc = "running", !.root = folderItem,
                       !.stack = <<Frame(folderItem)>>]

\* restoreFolder up to its first await
restoreFolder(folderItem) ==
    IF ~folderItem.isDirectory \/ ~HasChildren(folderItem)
    THEN [NoJob EXCEPT !.pc = "settled", !.root = folderItem, !.outcome = "rejected",
                       !.error = [message |-> InvalidFolderMessage, cause |-> ""]]
    ELSE [NoJob EXCEPT !.pc = "running", !.root = folderItem,
                       !.stack = <<Frame(folderItem)>>]

\* The loop of restoreFolderContents takes the recursive branch for a child.
TakesRecursiveBranch(frame) ==
    /\ frame.next > 0
    /\ NodeAt(frame).isDirectory
    /\ HasChildren(NodeAt(frame))

\* const childResult = await this.restoreFolderContents(childItem)
DescendInto(j) == [j EXCEPT !.stack = Append(@, Frame(NodeAt(Top(j.stack))))]

\* await this.restoreItem(node) is issued for the node the top frame is at
AwaitNode(j) ==
    [j EXCEPT !.awaiting = TRUE, !.attempted = Append(@, NodeAt(Top(j.stack)).uri)]

\* A loop that gives up at the first failure.
CountedUntilFailure(frame, outcome) ==
    [frame EXCEPT !.next = IF outcome = "resolved" THEN @ + 1
                           ELSE Len(frame.folderItem.children) + 1,
                  !.restored = IF outcome = "resolved" THEN @ + 1 ELSE @,
                  !.failed   = IF outcome = "resolved" THEN @ ELSE @ + 1]

\* restored++ after the await, failed++ in the catch, and on to the next node
Counted(frame, outcome) ==
    [frame EXCEPT !.next = @ + 1,
                  !.restored = IF outcome = "resolved" THEN @ + 1 ELSE @,
                  !.failed   = IF outcome = "resolved" THEN @ ELSE @ + 1]

\* What became of one awaited call: the node it was for and how it settled.
Settlement(item, outcome) ==
    [uri |-> item.uri, isDirectory |-> item.isDirectory, outcome |-> outcome]

AccountNode(j, outcome) ==
    [j EXCEPT !.awaiting = FALSE,
              !.log = Append(@, Settlement(NodeAt(Top(j.stack)), outcome)),
              !.stack = ReplaceTop(@, Counted(Top(@), outcome))]

\* restored += childResult.restored; failed += childResult.failed
Absorb(frame, childResult) ==
    [frame EXCEPT !.next = @ + 1,
                  !.restored = @ + childResult.restored,
                  !.failed   = @ + childResult.failed]

\* return { restored, failed } of the top frame to the frame below it
ReturnToParent(j) ==
    [j EXCEPT !.stack = ReplaceTop(SubSeq(@, 1, Len(@) - 1),
                                   Absorb(@[Len(@) - 1], Top(@)))]

\* restoreFolder that never looks at the failure count.
SettleFolderRegardless(j, restorationResult) ==
    [j EXCEPT !.pc = "settled", !.stack = <<>>, !.outcome = "resolved",
              !.result = [restored |-> restorationResult.restored,
                          failed |-> restorationResult.failed]]

\* restoreFolder after restoreFolderContents has returned restorationResult
SettleFolder(j, restorationResult) ==
    IF restorationResult.failed > 0
    THEN [j EXCEPT !.pc = "settled", !.stack = <<>>, !.outcome = "rejected",
                   !.error = [message |-> FolderFailedMessage, cause |-> ""],
                   !.result = [restored |-> restorationResult.restored,
                               failed |-> restorationResult.failed]]
    ELSE [j EXCEPT !.pc = "settled", !.stack = <<>>, !.outcome = "resolved",
                   !.result = [restored |-> restorationResult.restored,
                               failed |-> restorationResult.failed]]

----------------------------------------------------------------------------
(* extension.ts: the restoreSelected command *)

NoSelectionMessage == "No items selected for restoration"
BatchDoneMessage == "Successfully restored {restored} item(s)"

\* restoreSelectedCommand up to the quick pick
restoreSelectedCommand(selectedItems) ==
    IF Len(selectedItems) = 0
    THEN [NoBatch EXCEPT !.pc = "settled", !.shown = NoSelectionMessage]
    ELSE [NoBatch EXCEPT !.pc = "confirm", !.selection = selectedItems]

\* if (confirmation !== 'Yes') {return;}
Confirmed(b, confirmation) ==
    IF confirmation # "Yes" THEN [b EXCEPT !.pc = "settled"]
    ELSE [b EXCEPT !.pc = "running"]

SelectedAt(b) == b.selection[b.next]

\* the await on restoreFolder or restoreItem for the selected item b is at
BatchAwait(b) ==
    [b EXCEPT !.awaiting = IF SelectedAt(b).isDirectory THEN "restoreFolder"
                           ELSE "restoreItem",
              !.attempted = Append(@, SelectedAt(b).uri)]

\* A loop whose restored++ sits after the try block.
BatchCountedRegardless(b, outcome) ==
    [b EXCEPT !.awaiting = "none",
              !.log = Append(@, Settlement(SelectedAt(b), outcome)),
              !.next = @ + 1,
              !.restored = @ + 1,
              !.reported = IF outcome = "resolved" THEN @
                           ELSE Append(@, SelectedAt(b).relativePath)]

\* restored++ and progress.report after the await, showErrorMessage in the catch
BatchCounted(b, outcome) ==
    [b EXCEPT !.awaiting = "none",
              !.log = Append(@, Settlement(SelectedAt(b), outcome)),
              !.next = @ + 1,
              !.restored = IF outcome = "resolved" THEN @ + 1 ELSE @,
              !.reported = IF outcome = "resolved" THEN @
                           ELSE Append(@, SelectedAt(b).relativePath)]

\* showInformationMessage and await deletedItemsProvider.refresh()
BatchFinished(b) ==
    [b EXCEPT !.pc = "settled", !.shown = BatchDoneMessage, !.refreshRequested = TRUE]

----------------------------------------------------------------------------
(* Restoration: calls of restoreItem against backup storage and the disk *)

\* Snapshot files of /w/.vscode/history/h1, oldest name first.
RestoreFileLists ==
    { [i \in 1..n |-> [name |-> SnapshotName(i), mtime |-> 1,
                       content |-> SnapshotContent(SnapshotName(i))]]
        : n \in 0..MaxFiles }

\* The nodes a restore command can be given: file records with a snapshot
\* path, with an empty one, with none, and a folder node of the organizer.
RestoreChoices ==
    { createDeletedItem(OriginA, join(H1, "s1"), 1),
      createDeletedItem(OriginDB, join(H1, "s2"), 1),
      [uri |-> OriginA, relativePath |-> relative(W, OriginA),
       isDirectory |-> FALSE, deletionTime |-> 1, backupPath |-> <<>>],
      [uri |-> OriginDB, relativePath |-> relative(W, OriginDB),
       isDirectory |-> FALSE, deletionTime |-> 1],
      createFolderItem(W, <<"d">>) }

RestoreDiskChoices ==
    { (W :> DirEntry),
      (W :> DirEntry) @@ (OriginA :> FileEntry(OldContent)),
      (W :> DirEntry) @@ (<<"w", "d">> :> DirEntry) @@ (OriginDB :> FileEntry(OldContent)),
      (W :> DirEntry) @@ (<<"w", "d">> :> FileEntry(OldContent)) }

RestoreInit ==
    /\ \E fl \in RestoreFileLists, res \in {ResA, ResDB} :
        store = MakeStore({WH}, [marker |-> Marker(res), files |-> fl],
                          FixedBackupDir, AbsentDir, AbsentDir)
    /\ disk \in RestoreDiskChoices
    /\ faults = NoFaults
    /\ RestorerAtRest
    /\ ScannerAtRest
    /\ OrganizerAtRest
    /\ WatcherAtRest
    /\ ProviderAtRest

\* FileRestorer.restoreItem(item) is called; it runs to its first await.
RestoreItem ==
    /\ restore.pc \in {"idle", "settled"}
    /\ job.pc = "idle"
    /\ batch.pc = "idle"
    /\ \E item \in RestoreChoices : restore' = restoreItem(item)
    /\ UNCHANGED <<store, disk, job, batch, outsideRestore>>

EnsureDirectoryExists ==
    /\ restore.pc = "ensureDirectoryExists"
    /\ \E ok \in CreateDirectoryOutcomes(disk, dirnameAbs(restore.item.uri)) :
        /\ disk' = IF ok THEN createDirectory(disk, dirnameAbs(restore.item.uri))
                   ELSE disk
        /\ restore' = ensureDirectoryExists(restore, ok)
    /\ UNCHANGED <<store, job, batch, outsideRestore>>

ReadBackupContent ==
    /\ restore.pc = "readBackupContent"
    /\ \E ok \in ReadFileOutcomes(BackupPathOf(restore.item)) :
        restore' = readBackupContent(restore, ok)
    /\ UNCHANGED <<store, disk, job, batch, outsideRestore>>

WriteFile ==
    /\ restore.pc = "writeFile"
    /\ \E ok \in WriteFileOutcomes(disk, restore.item.uri) :
        /\ disk' = IF ok THEN writeFile(disk, restore.item.uri, restore.backupContent)
                   ELSE disk
        /\ restore' = AfterWriteFile(restore, ok)
    /\ UNCHANGED <<store, job, batch, outsideRestore>>

AttemptToOpenRestoredFile ==
    /\ restore.pc = "attemptToOpenRestoredFile"
    /\ \E ok \in BOOLEAN : restore' = attemptToOpenRestoredFile(restore, ok)
    /\ UNCHANGED <<store, disk, job, batch, outsideRestore>>

RestoreEmptyDirectory ==
    /\ restore.pc = "restoreEmptyDirectory"
    /\ \E ok \in CreateDirectoryOutcomes(disk, restore.item.uri) :
        /\ disk' = IF ok THEN createDirectory(disk, restore.item.uri) ELSE disk
        /\ restore' = restoreEmptyDirectory(restore, ok)
    /\ UNCHANGED <<store, job, batch, outsideRestore>>

\* A folder node as the organizer builds it, with its children attached.
FolderNode(dirPath, children) ==
    [createFolderItem(W, dirPath) EXCEPT !.children = children]

\* A file record without a backupPath property.
FileWithoutBackup(origin) ==
    [uri |-> origin, relativePath |-> relative(W, origin),
     isDirectory |-> FALSE, deletionTime |-> 1]

\* A directory node without a children property.
DirWithoutChildren(dirPath) ==
    [uri |-> W \o dirPath, relativePath |-> dirPath, isDirectory |-> TRUE,
     deletionTime |-> 0, backupPath |-> <<>>]

OriginDC  == <<"w", "d", "c">>
OriginDEF == <<"w", "d", "e", "f">>

\* d/ holding b (snapshot s1) and c (no backup)
FolderOkBad ==
    FolderNode(<<"d">>, << createDeletedItem(OriginDB, join(H1, "s1"), 1),
                           FileWithoutBackup(OriginDC) >>)

\* d/ holding e/ (holding f, snapshot s2) and b (snapshot s1)
FolderNested ==
    FolderNode(<<"d">>, << FolderNode(<<"d", "e">>,
                                << createDeletedItem(OriginDEF, join(H1, "s2"), 1) >>),
                           createDeletedItem(OriginDB, join(H1, "s1"), 1) >>)

\* d/ holding a directory node e/ that has no children property
FolderChildlessDir == FolderNode(<<"d">>, << DirWithoutChildren(<<"d", "e">>) >>)

FolderChoices ==
    { FolderOkBad, FolderNested, FolderChildlessDir, createFolderItem(W, <<"d">>),
      DirWithoutChildren(<<"d">>), createDeletedItem(OriginA, join(H1, "s1"), 1) }

SelectableItems ==
    { createDeletedItem(OriginA, join(H1, "s1"), 1), FileWithoutBackup(OriginDC),
      FolderOkBad, DirWithoutChildren(<<"d">>) }

SelectionChoices == UNION { [1..n -> SelectableItems] : n \in 0..MaxSelected }

NoCommandRunning ==
    /\ restore.pc \in {"idle", "settled"}
    /\ job.pc = "idle"
    /\ batch.pc = "idle"

\* FileRestorer.restoreFolder(folderItem) is called; it runs to its first await.
RestoreFolder ==
    /\ NoCommandRunning
    /\ \E folderItem \in FolderChoices : job' = restoreFolder(folderItem)
    /\ UNCHANGED <<store, disk, restore, batch, outsideRestore>>

FolderAtNode ==
    /\ job.pc = "running"
    /\ ~job.awaiting
    /\ Top(job.stack).next <= Len(Top(job.stack).folderItem.children)

\* restoreFolderContents calls itself for a child directory that has children.
DescendIntoFolder ==
    /\ FolderAtNode
    /\ TakesRecursiveBranch(Top(job.stack))
    /\ job' = DescendInto(job)
    /\ UNCHANGED <<store, disk, restore, batch, outsideRestore>>

\* restoreFolderContents calls restoreItem for the folder itself or a child.
RestoreNode ==
    /\ FolderAtNode
    /\ ~TakesRecursiveBranch(Top(job.stack))
    /\ restore' = restoreItem(NodeAt(Top(job.stack)))
    /\ job' = AwaitNode(job)
    /\ UNCHANGED <<store, disk, batch, outsideRestore>>

\* the awaited restoreItem has settled: restored++ or, in the catch, failed++
CountNode ==
    /\ job.pc = "running"
    /\ job.awaiting
    /\ restore.pc = "settled"
    /\ job' = AccountNode(job, restore.outcome)
    /\ UNCHANGED <<store, disk, restore, batch, outsideRestore>>

FolderAtEnd ==
    /\ job.pc = "running"
    /\ ~job.awaiting
    /\ Top(job.stack).next > Len(Top(job.stack).folderItem.children)

\* a nested restoreFolderContents returns its counts to its caller
ReturnFromFolder ==
    /\ FolderAtEnd
    /\ Len(job.stack) > 1
    /\ job' = ReturnToParent(job)
    /\ UNCHANGED <<store, disk, restore, batch, outsideRestore>>

\* the outermost restoreFolderContents returns and restoreFolder settles
FinishFolder ==
    /\ FolderAtEnd
    /\ Len(job.stack) = 1
    /\ job' = SettleFolder(job, Top(job.stack))
    /\ UNCHANGED <<store, disk, restore, batch, outsideRestore>>

\* The restoreSelected command is run on the tree view's selection.
RestoreSelected ==
    /\ NoCommandRunning
    /\ \E selectedItems \in SelectionChoices :
        batch' = restoreSelectedCommand(selectedItems)
    /\ UNCHANGED <<store, disk, restore, job, outsideRestore>>

\* The quick pick settles: 'Yes', 'No', or dismissed.
ConfirmRestore ==
    /\ batch.pc = "confirm"
    /\ \E confirmation \in {"Yes", "No", "undefined"} :
        batch' = Confirmed(batch, confirmation)
    /\ UNCHANGED <<store, disk, restore, job, outsideRestore>>

\* The loop of restoreSelected calls restoreFolder or restoreItem.
BatchRestoreNext ==
    /\ batch.pc = "running"
    /\ batch.awaiting = "none"
    /\ batch.next <= Len(batch.selection)
    /\ job' = IF SelectedAt(batch).isDirectory THEN restoreFolder(SelectedAt(batch))
              ELSE job
    /\ restore' = IF SelectedAt(batch).isDirectory THEN restore
                  ELSE restoreItem(SelectedAt(batch))
    /\ batch' = BatchAwait(batch)
    /\ UNCHANGED <<store, disk, outsideRestore>>

\* The awaited call has settled: restored++, or the catch reports the failure.
BatchCount ==
    /\ batch.pc = "running"
    /\ \/ /\ batch.awaiting = "restoreFolder"
          /\ job.pc = "settled"
          /\ batch' = BatchCounted(batch, job.outcome)
       \/ /\ batch.awaiting = "restoreItem"
          /\ restore.pc = "settled"
          /\ batch' = BatchCounted(batch, restore.outcome)
    /\ UNCHANGED <<store, disk, restore, job, outsideRestore>>

\* The loop is over: the count is shown and the provider is refreshed.
BatchFinish ==
    /\ batch.pc = "running"
    /\ batch.awaiting = "none"
    /\ batch.next > Len(batch.selection)
    /\ batch' = BatchFinished(batch)
    /\ UNCHANGED <<store, disk, restore, job, outsideRestore>>

RestoreNext ==
    \/ RestoreItem
    \/ EnsureDirectoryExists
    \/ ReadBackupContent
    \/ WriteFile
    \/ AttemptToOpenRestoredFile
    \/ RestoreEmptyDirectory
    \/ RestoreFolder
    \/ DescendIntoFolder
    \/ RestoreNode
    \/ CountNode
    \/ ReturnFromFolder
    \/ FinishFolder
    \/ RestoreSelected
    \/ ConfirmRestore
    \/ BatchRestoreNext
    \/ BatchCount
    \/ BatchFinish

RestoreSpec == RestoreInit /\ [][RestoreNext]_vars

----------------------------------------------------------------------------
(* Properties of restoration *)

RestoringFile == restore.pc # "idle" /\ ~restore.item.isDirectory

Settled(outcome) == restore.pc = "settled" /\ restore.outcome = outcome

WritesIssued == {k \in 1..Len(restore.fsOps) : restore.fsOps[k].op = "writeFile"}

\* C9: restoreItem on a file node whose backupPath is absent or empty rejects
\* with the 'No backup path' error and has issued no filesystem operation.
C9_NoBackupPathRejectsBeforeAnyIO ==
    (RestoringFile /\ ~HasBackupPath(restore.item)) =>
        /\ Settled("rejected")
        /\ restore.error.message = NoBackupPathMessage
        /\ restore.fsOps = <<>>

C9_Witness ==
    /\ RestoringFile
    /\ "backupPath" \notin DOMAIN restore.item
    /\ Settled("rejected")
    /\ restore.fsOps = <<>>

\* C10: when restoreItem has succeeded on a file node, the origin path holds
\* exactly the content of the snapshot at backupPath, put there by the one
\* writeFile of the call, whatever the origin path held before.
C10_RestoredContentIsSnapshotContent ==
    (RestoringFile /\ Settled("resolved")) =>
        /\ IsSnapshot(BackupPathOf(restore.item))
        /\ restore.item.uri \in DOMAIN disk
        /\ disk[restore.item.uri] = FileEntry(SnapshotAt(restore.item.backupPath).content)
        /\ Cardinality(WritesIssued) = 1
        /\ \A k \in WritesIssued :
            restore.fsOps[k].path = restore.item.uri /\ restore.fsOps[k].ok

C10_Witness ==
    /\ RestoringFile
    /\ Settled("resolved")
    /\ \E k \in WritesIssued : restore.fsOps[k].existed
    /\ disk[restore.item.uri].content # OldContent

LastFsOp == restore.fsOps[Len(restore.fsOps)]

\* The last filesystem call of a restoreItem on a file node failed, and it
\* was the given one.
FileCallFailedAt(op) ==
    /\ RestoringFile
    /\ restore.fsOps # <<>>
    /\ LastFsOp.op = op
    /\ ~LastFsOp.ok

IoFailureRejects ==
    /\ (FileCallFailedAt("readFile") \/ FileCallFailedAt("writeFile")) =>
            /\ Settled("rejected")
            /\ restore.error.cause = IoCause
    /\ FileCallFailedAt("readFile") =>
            /\ restore.error.message = ReadFailedMessage
            /\ WritesIssued = {}

EntryAt(d, p) == IF p \in DOMAIN d THEN d[p] ELSE [type |-> "none", content |-> <<>>]

\* C22: restoreItem on a file node rejects whenever the read of the snapshot
\* or the write of the target fails, the error carrying the cause; up to and
\* including a failed read no step of the call changes what is at the origin
\* path, and no writeFile has been issued.
C22_IoFailureRejectsWithCause ==
    [][/\ IoFailureRejects'
       /\ (RestoringFile /\ restore.pc \in {"ensureDirectoryExists", "readBackupContent"})
            => EntryAt(disk', restore.item.uri) = EntryAt(disk, restore.item.uri)]_vars

\* A read that failed while a file with other content stands at the origin
\* path.
C22_Witness ==
    /\ FileCallFailedAt("readFile")
    /\ Settled("rejected")
    /\ restore.item.uri \in DOMAIN disk
    /\ disk[restore.item.uri] = FileEntry(OldContent)

Succeeded(op) == \E k \in 1..Len(restore.fsOps) :
                    restore.fsOps[k].op = op /\ restore.fsOps[k].ok

\* C23: a settled restoreItem on a file node with a backupPath has succeeded
\* when its read and its write succeeded, and has rejected only when its last
\* filesystem call was a failed read or a failed write: a failure of
\* createDirectory or of vscode.open fails nothing.
C23_OnlyReadOrWriteFailureRejects ==
    (RestoringFile /\ HasBackupPath(restore.item) /\ restore.pc = "settled") =>
        /\ (Succeeded("readFile") /\ Succeeded("writeFile")) => Settled("resolved")
        /\ Settled("rejected") =>
                (FileCallFailedAt("readFile") \/ FileCallFailedAt("writeFile"))

\* A call that succeeded although createDirectory failed on the parent, which
\* was not there before, and although the editor could not open the file.
C23_Witness ==
    /\ RestoringFile
    /\ Settled("resolved")
    /\ restore.fsOps[1].op = "createDirectory"
    /\ ~restore.fsOps[1].ok /\ ~restore.fsOps[1].existed
    /\ restore.opened = "failed"

----------------------------------------------------------------------------
(* Properties of folder and batch restoration *)

ValidFolder(item) == item.isDirectory /\ HasChildren(item)

FolderSettled == job.pc = "settled" /\ ValidFolder(job.root)

Resolved(log) == {k \in 1..Len(log) : log[k].outcome = "resolved"}
Rejected(log) == {k \in 1..Len(log) : log[k].outcome = "rejected"}

\* A node that was restored is on disk as what it is.
OnDisk(entry) ==
    /\ entry.uri \in DOMAIN disk
    /\ disk[entry.uri].type = IF entry.isDirectory THEN "dir" ELSE "file"

\* C11: restoreFolder on a valid directory node rejects exactly when some
\* entry of the subtree failed to restore, the error then naming the
\* restored and the failed count, and every entry that was restored is on
\* disk when the call settles.
C11_FolderRejectsIffAnEntryFailed ==
    FolderSettled =>
        /\ job.outcome = "rejected" <=> Rejected(job.log) # {}
        /\ job.outcome = "rejected" =>
            /\ job.error.message = FolderFailedMessage
            /\ job.result.failed > 0
        /\ \A k \in Resolved(job.log) : OnDisk(job.log[k])

C11_Witness ==
    /\ FolderSettled
    /\ job.outcome = "rejected"
    /\ \E k \in Resolved(job.log) : ~job.log[k].isDirectory /\ OnDisk(job.log[k])

ChildrenAreFiles(item) ==
    \A k \in 1..Len(item.children) : ~item.children[k].isDirectory

FilesIn(log, outcome) ==
    {k \in 1..Len(log) : ~log[k].isDirectory /\ log[k].outcome = outcome}

\* C12: for a directory node whose children are files, the success count
\* restoreFolder reports is the number of child files written and the failure
\* count is the number of child files that failed.
C12_CountsAreTheChildFiles ==
    (FolderSettled /\ ChildrenAreFiles(job.root)) =>
        /\ job.result.restored = Cardinality(FilesIn(job.log, "resolved"))
        /\ job.result.failed = Cardinality(FilesIn(job.log, "rejected"))

RECURSIVE SubtreeNodes(_)
RECURSIVE ChildNodes(_, _)
\* The nodes of a subtree: the node, then the subtrees of its children in
\* list order.
SubtreeNodes(item) ==
    <<item.uri>> \o (IF HasChildren(item) THEN ChildNodes(item.children, 1) ELSE <<>>)
ChildNodes(children, k) ==
    IF k > Len(children) THEN <<>>
    ELSE SubtreeNodes(children[k]) \o ChildNodes(children, k + 1)

\* C13: restoreFolder attempts every node of the subtree once, the directory
\* first and then each child in list order, whatever fails on the way, and
\* restored + failed is the number of nodes of the subtree.
C13_EveryNodeAttemptedOnce ==
    FolderSettled =>
        /\ job.attempted = SubtreeNodes(job.root)
        /\ [k \in 1..Len(job.log) |-> job.log[k].uri] = SubtreeNodes(job.root)
        /\ job.result.restored + job.result.failed = Len(SubtreeNodes(job.root))

C13_Witness ==
    /\ FolderSettled
    /\ Len(job.stack) = 0
    /\ Len(job.log) >= 3
    /\ job.log[1].outcome = "rejected"
    /\ \E k \in 2..Len(job.log) : job.log[k].outcome = "resolved"
    /\ \E k \in 1..Len(job.root.children) : ValidFolder(job.root.children[k])

BatchDone == batch.pc = "settled" /\ batch.shown = BatchDoneMessage

\* C14: restoreSelected attempts every selected node once, in selection
\* order; a failure is reported and the batch goes on, and the count shown
\* at the end is the number of selected items whose restoration completed
\* without error.
C14_BatchAttemptsEverySelectedItem ==
    BatchDone =>
        /\ batch.attempted = [k \in 1..Len(batch.selection) |-> batch.selection[k].uri]
        /\ Len(batch.log) = Len(batch.selection)
        /\ batch.restored = Cardinality(Resolved(batch.log))
        /\ batch.reported = [k \in 1..Cardinality(Rejected(batch.log)) |->
                batch.selection[CHOOSE i \in Rejected(batch.log) :
                    Cardinality({j \in Rejected(batch.log) : j <= i}) = k].relativePath]

C14_Witness ==
    /\ BatchDone
    /\ Len(batch.selection) = MaxSelected
    /\ batch.log[1].outcome = "rejected"
    /\ batch.log[2].outcome = "resolved"
    /\ batch.restored = 1

\* restoreFolder was called with a node that is no directory or has no
\* children list: it has rejected and no restoreItem call was made.
InvalidFolderRejectedAtOnce ==
    (job.pc # "idle" /\ ~ValidFolder(job.root)) =>
        /\ job.pc = "settled"
        /\ job.outcome = "rejected"
        /\ job.error.message = InvalidFolderMessage
        /\ job.attempted = <<>>
        /\ job.log = <<>>

EmptyFolderSettled == FolderSettled /\ job.root.children = <<>>

\* C24 as stated: an invalid node is rejected before any filesystem
\* operation, and for a directory node with an empty children list the
\* directory is created and the call succeeds.
C24_EmptyFolderAlwaysSucceeds ==
    /\ InvalidFolderRejectedAtOnce
    /\ EmptyFolderSettled =>
        /\ job.outcome = "resolved"
        /\ OnDisk(job.root)

\* C24 amended: an invalid node is rejected before any filesystem operation;
\* a directory node with an empty children list is not rejected as invalid:
\* the one call made is restoreItem on the node itself, which creates the
\* directory, and restoreFolder succeeds exactly when that creation succeeds.
C24_EmptyFolderIsValid ==
    /\ InvalidFolderRejectedAtOnce
    /\ EmptyFolderSettled =>
        /\ job.error.message # InvalidFolderMessage
        /\ job.attempted = <<job.root.uri>>
        /\ Len(job.log) = 1
        /\ job.outcome = job.log[1].outcome
        /\ job.outcome = "resolved" => OnDisk(job.root)

\* The empty directory node d/ was restored where no directory stood.
C24_Witness ==
    /\ EmptyFolderSettled
    /\ job.outcome = "resolved"
    /\ OnDisk(job.root)
    /\ restore.fsOps = <<FsOp("createDirectory", job.root.uri, TRUE)>>
    /\ job.result = [restored |-> 1, failed |-> 0]

\* The records of a discovery pass of a new scanner over storage and the
\* filesystem as they are now.
PassNow == ScanResult(scanAllBackupLocations(NewScanner)).items

RecordedNow == {PassNow[i].uri : i \in 1..Len(PassNow)}

\* C28: when restoreItem has succeeded for a file record, a discovery pass
\* over the filesystem as it then is holds no record for the record's origin
\* path; when restoreFolder has succeeded, such a pass holds no record for
\* any file of the subtree.
C28_RestoredPathsLeaveTheNextPass ==
    /\ (RestoringFile /\ Settled("resolved")) => restore.item.uri \notin RecordedNow
    /\ (FolderSettled /\ job.outcome = "resolved") =>
            \A k \in 1..Len(job.log) :
                ~job.log[k].isDirectory => job.log[k].uri \notin RecordedNow

\* The folder d/ was restored; its file b is the record a pass made from the
\* marker and the snapshot s1 of h1 while /w/d/b was gone, and the pass over
\* the filesystem as it now is has no record.
C28_Witness ==
    /\ FolderSettled /\ job.outcome = "resolved"
    /\ job.root = FolderNested
    /\ RestoringFile /\ Settled("resolved")
    /\ restore.item = createDeletedItem(OriginDB, join(H1, "s1"), 1)
    /\ store[H1].marker = Marker(ResDB)
    /\ \E k \in WritesIssued : ~restore.fsOps[k].existed
    /\ PassNow = <<>>

----------------------------------------------------------------------------
(* FileWatcherManager: watchers, the debounce timer, the refresh callback *)

\* A timer made by setTimeout: armed until it fires or is cleared.  A timer
\* is stale once dispose() has been called after it was made.
NewTimer == [state |-> "armed", stale |-> FALSE, delay |-> REFRESH_DEBOUNCE_DELAY_MS]

\* clearTimeout(id): an armed timer is cleared, any other is left alone
clearTimeout(timers, id) ==
    [timers EXCEPT ![id].state = IF @ = "armed" THEN "cleared" ELSE @]

hasWorkspaceFolders(w) == w.workspaceFolders > 0

cleanupExistingWatchers(w) == [w EXCEPT !.fileWatchers = 0]

\* one watcher per workspace folder is pushed onto fileWatchers
createWatchersForWorkspaceFolders(w) ==
    [w EXCEPT !.fileWatchers = @ + w.workspaceFolders]

\* the rest of setupFileWatchers once the old watchers are gone
SetupAfterCleanup(w) ==
    IF ~hasWorkspaceFolders(w) THEN w ELSE createWatchersForWorkspaceFolders(w)

setupFileWatchers(w) == SetupAfterCleanup(cleanupExistingWatchers(w))

cleanupTimer(w) ==
    IF w.refreshTimer # 0
    THEN [w EXCEPT !.timers = clearTimeout(@, w.refreshTimer),
                   !.refreshTimer = 0,
                   !.pendingRefresh = FALSE]
    ELSE w

dispose(w) == cleanupExistingWatchers(cleanupTimer(w))

cancelExistingTimer(w) ==
    IF w.refreshTimer # 0
    THEN [w EXCEPT !.timers = clearTimeout(@, w.refreshTimer)]
    ELSE w

shouldSkipRefresh(w) == w.pendingRefresh \/ ~hasWorkspaceFolders(w)

\* pendingRefresh = true; refreshTimer = setTimeout(...)
scheduleRefresh(w) ==
    [w EXCEPT !.pendingRefresh = TRUE,
              !.timers = Append(@, NewTimer),
              !.refreshTimer = Len(w.timers) + 1]

\* the rest of triggerDebouncedRefresh once cancelExistingTimer has run
TriggerAfterCancel(w) ==
    IF shouldSkipRefresh(w) THEN w ELSE scheduleRefresh(w)

triggerDebouncedRefresh(w) == TriggerAfterCancel(cancelExistingTimer(w))

resetRefreshState(w) == [w EXCEPT !.pendingRefresh = FALSE, !.refreshTimer = 0]

\* The timer's function starts: it calls the refresh callback and awaits it.
InvokeCallback(w, id) ==
    [w EXCEPT !.timers[id].state = "fired",
              !.running = @ \cup {id},
              !.burst = FALSE,
              !.staleInvoked = @ \/ w.timers[id].stale]

\* The state is reset after the await, not in a finally block.
CallbackSettledResetOnSuccess(w, id, ok) ==
    [(IF ok THEN resetRefreshState(w) ELSE w)
        EXCEPT !.running = @ \ {id},
               !.lastSettled = IF ok THEN "resolved" ELSE "rejected"]

\* The awaited callback has settled: the catch logs a rejection, the finally
\* block resets the state.
CallbackSettled(w, id, ok) ==
    [resetRefreshState(w) EXCEPT !.running = @ \ {id},
                                 !.lastSettled = IF ok THEN "resolved" ELSE "rejected"]

\* Every timer made so far was made before this dispose().
MarkStale(w) ==
    [w EXCEPT !.timers = [id \in 1..Len(@) |-> [@[id] EXCEPT !.stale = TRUE]]]

ArmedTimers(w) == {id \in 1..Len(w.timers) : w.timers[id].state = "armed"}

----------------------------------------------------------------------------
(* Watching: a FileWatcherManager in its host *)

WatchInit ==
    /\ watcher \in {NewWatcher(n) : n \in 0..1}
    /\ ProviderAtRest
    /\ EmptyStorage
    /\ ScannerAtRest
    /\ OrganizerAtRest
    /\ RestorerAtRest

WatchFrame == UNCHANGED <<store, disk, faults, scanner, scanOut, scanCount, orgVars,
                          restoreVars, provider>>

\* fileWatcherManager.setupFileWatchers(), at activation or on a change of
\* the workspace folders
SetupFileWatchers ==
    /\ watcher' = [setupFileWatchers(watcher) EXCEPT !.lastCall = "setupFileWatchers"]
    /\ WatchFrame

\* fileWatcherManager.dispose()
Dispose ==
    /\ watcher' = [MarkStale(dispose(watcher)) EXCEPT !.lastCall = "dispose",
                                                     !.burst = FALSE]
    /\ WatchFrame

\* A live watcher reports a created or deleted file.
FileEvent ==
    /\ watcher.fileWatchers > 0
    /\ Len(watcher.timers) < MaxTimers
    /\ watcher' = [triggerDebouncedRefresh(watcher) EXCEPT
                        !.lastCall = "event",
                        !.burst = hasWorkspaceFolders(watcher) /\ watcher.running = {}]
    /\ WatchFrame

\* The debounce delay of an armed timer has elapsed.
TimerFires ==
    /\ \E id \in ArmedTimers(watcher) :
        watcher' = [InvokeCallback(watcher, id) EXCEPT !.lastCall = "timer"]
    /\ WatchFrame

\* A refresh callback that was invoked resolves or rejects.
RefreshSettles ==
    /\ \E id \in watcher.running, ok \in BOOLEAN :
        watcher' = [CallbackSettled(watcher, id, ok) EXCEPT !.lastCall = "settled"]
    /\ WatchFrame

\* The user adds the workspace folder or removes it.
WorkspaceFoldersChange ==
    /\ watcher' = [watcher EXCEPT !.workspaceFolders = 1 - @,
                                  !.burst = FALSE,
                                  !.lastCall = "folders"]
    /\ WatchFrame

WatchNext ==
    \/ SetupFileWatchers
    \/ Dispose
    \/ FileEvent
    \/ TimerFires
    \/ RefreshSettles
    \/ WorkspaceFoldersChange

WatchSpec == WatchInit /\ [][WatchNext]_vars

----------------------------------------------------------------------------
(* Properties of watching *)

\* C15: while workspace folders exist and no callback is in flight, a burst
\* of file events that arrived within the debounce window has exactly one
\* armed timer, so that it ends in exactly one invocation of the callback.
C15_BurstHasOneArmedTimer ==
    (watcher.burst /\ hasWorkspaceFolders(watcher) /\ watcher.running = {}) =>
        Cardinality(ArmedTimers(watcher)) = 1

\* C16: after dispose() the watcher list is empty, and no timer that was
\* scheduled before a dispose() is left armed or has invoked the callback.
C16_DisposeCancelsScheduledRefresh ==
    /\ watcher.lastCall = "dispose" => watcher.fileWatchers = 0
    /\ \A id \in ArmedTimers(watcher) : ~watcher.timers[id].stale
    /\ ~watcher.staleInvoked

\* C17: the callback is never invoked while an invocation has not settled,
\* and at most one refresh is pending: one armed timer or one running
\* callback.
C17_NoOverlappingRefresh ==
    /\ Cardinality(watcher.running) <= 1
    /\ Cardinality(ArmedTimers(watcher)) + Cardinality(watcher.running) <= 1

RejectedJustNow(w) == w.lastCall = "settled" /\ w.lastSettled = "rejected"

\* C25: when the refresh callback has rejected, pendingRefresh is false and
\* refreshTimer is null, and a file event that comes next while workspace
\* folders exist arms a new timer that the manager holds as its refreshTimer.
C25_FailedRefreshClearsPendingState ==
    [][/\ RejectedJustNow(watcher') =>
            (~watcher'.pendingRefresh /\ watcher'.refreshTimer = 0)
       /\ (RejectedJustNow(watcher) /\ watcher'.lastCall = "event"
                /\ hasWorkspaceFolders(watcher)) =>
            /\ watcher'.pendingRefresh
            /\ watcher'.refreshTimer = Len(watcher.timers) + 1
            /\ watcher'.refreshTimer \in ArmedTimers(watcher')]_vars

\* After a rejected refresh an event has armed the only timer.
C25_Witness ==
    /\ watcher.lastSettled = "rejected"
    /\ watcher.lastCall = "event"
    /\ watcher.running = {}
    /\ ArmedTimers(watcher) = {watcher.refreshTimer}
    /\ Len(watcher.timers) = 2

\* C26: pendingRefresh is true only while a debounce timer is armed or a
\* refresh callback is executing.
C26_PendingOnlyWhileScheduled ==
    watcher.pendingRefresh =>
        (ArmedTimers(watcher) # {} \/ watcher.running # {})

ForestOf(out) == [topLevelItems |-> out.topLevelItems, folderMap |-> out.folderMap]

----------------------------------------------------------------------------
(* DeletedItemsProvider: overlapping refresh() calls on one provider *)

W2 == <<"w2">>                                 \* a second workspace folder /w2

\* The record new BackupScanner(workspacePath) makes for a deleted file.
ScannerRecord(workspacePath, originalPath, backupPath, mtime) ==
    [createDeletedItem(originalPath, backupPath, mtime)
        EXCEPT !.relativePath = relative(workspacePath, originalPath)]

\* Deleted files of a workspace folder, in the order a pass reports them.
DeletedBelowFolder ==
    << <<"x.txt">>, <<"a", "y.txt">>, <<"a", "b", "z.txt">>, <<"c", "y.txt">> >>

FoundFirst(workspacePath, n) ==
    [i \in 1..n |->
        ScannerRecord(workspacePath, workspacePath \o DeletedBelowFolder[i],
                      join(H1, "s1"), i)]

\* scanResult.items of one scanAllBackupLocations() of the scanner of a
\* folder: the storage changes between passes, so two passes may differ.
PassChoices(workspacePath) ==
    { FoundFirst(workspacePath, n) :
        n \in 0..(IF MaxFound < Len(DeletedBelowFolder)
                  THEN MaxFound ELSE Len(DeletedBelowFolder)) }

WorkspaceFolderChoices == { <<>>, <<W>>, <<W, W2>> }

NoRoot == <<>>

\* vscode.workspace.workspaceFolders?.[0]?.uri.fsPath || ''
getWorkspaceRoot(p) ==
    IF Len(p.workspaceFolders) = 0 THEN NoRoot ELSE p.workspaceFolders[1]

IsRunning(call) == call.pc # "done"

\* refresh() up to the first await: loadDeletedItems reads the workspace
\* folders and either empties the list or starts scanWorkspaceFolders.
refresh(p) ==
    [p EXCEPT
        !.calls = Append(@,
            IF Len(p.workspaceFolders) = 0
            THEN [pc |-> "loaded", workspaceFolders |-> <<>>, allItems |-> <<>>, k |-> 1]
            ELSE [pc |-> "scanning", workspaceFolders |-> p.workspaceFolders,
                  allItems |-> <<>>, k |-> 1]),
        !.deletedItems = IF Len(p.workspaceFolders) = 0 THEN <<>> ELSE @,
        !.overlapped = @ \/ \E c \in DOMAIN p.calls : IsRunning(p.calls[c])]

\* One turn of the loop of scanWorkspaceFolders: the scanner of the k-th
\* folder settles and its items are pushed on allItems.
scanWorkspaceFolders(p, c, items) ==
    [p EXCEPT
        !.calls[c].allItems = @ \o items,
        !.calls[c].k = @ + 1,
        !.calls[c].pc = IF p.calls[c].k = Len(p.calls[c].workspaceFolders)
                        THEN "scanned" ELSE "scanning"]

\* loadDeletedItems appending the scan result to the list it holds
loadDeletedItemsAppending(p, c) ==
    [p EXCEPT !.deletedItems = @ \o p.calls[c].allItems,
              !.calls[c].pc = "loaded"]

\* loadDeletedItems after the await: this.deletedItems = scanResults
loadDeletedItems(p, c) ==
    [p EXCEPT !.deletedItems = p.calls[c].allItems,
              !.calls[c].pc = "loaded"]

\* organizeItems(), then notifyTreeChanged(), at the end of refresh()
organizeItems(p, c) ==
    [p EXCEPT
        !.organizedItems =
            IF getWorkspaceRoot(p) = NoRoot THEN NoForest
            ELSE organizeItemsByFolder(getWorkspaceRoot(p), p.deletedItems),
        !.calls[c].pc = "done"]

\* getSelectedItems(): a copy of the flat list
getSelectedItems(p) == p.deletedItems

\* getChildren(): the top-level array, and through it the folder objects
getChildren(p) == p.organizedItems

ProviderInit ==
    /\ \E folders \in WorkspaceFolderChoices : provider = NewProvider(folders)
    /\ WatcherAtRest
    /\ EmptyStorage
    /\ ScannerAtRest
    /\ OrganizerAtRest
    /\ RestorerAtRest

ProviderFrame ==
    UNCHANGED <<store, disk, faults, scanner, scanOut, scanCount, orgVars,
                restoreVars, watcher>>

\* A trigger (watcher callback, activation timer, command) calls refresh().
Refresh ==
    /\ Len(provider.calls) < MaxRefresh
    /\ provider' = refresh(provider)
    /\ ProviderFrame

ScanFolder ==
    /\ \E c \in DOMAIN provider.calls :
        /\ provider.calls[c].pc = "scanning"
        /\ \E items \in PassChoices(provider.calls[c].workspaceFolders[provider.calls[c].k]) :
            provider' = scanWorkspaceFolders(provider, c, items)
    /\ ProviderFrame

LoadDeletedItems ==
    /\ \E c \in DOMAIN provider.calls :
        /\ provider.calls[c].pc = "scanned"
        /\ provider' = loadDeletedItems(provider, c)
    /\ ProviderFrame

OrganizeItems ==
    /\ \E c \in DOMAIN provider.calls :
        /\ provider.calls[c].pc = "loaded"
        /\ provider' = organizeItems(provider, c)
    /\ ProviderFrame

ProviderNext ==
    \/ Refresh
    \/ ScanFolder
    \/ LoadDeletedItems
    \/ OrganizeItems

ProviderSpec == ProviderInit /\ [][ProviderNext]_vars

----------------------------------------------------------------------------
(* Properties of the provider's refresh *)

AllRefreshesCompleted ==
    /\ provider.calls # <<>>
    /\ \A c \in DOMAIN provider.calls : ~IsRunning(provider.calls[c])

OrganizationOf(p) ==
    IF getWorkspaceRoot(p) = NoRoot THEN NoForest
    ELSE organizeItemsByFolder(getWorkspaceRoot(p), getSelectedItems(p))

\* C27: once every refresh() call on a provider has completed, overlapping or
\* not, the forest getChildren() returns is the organization of the flat list
\* getSelectedItems() returns, and that list is the whole result of the
\* discovery pass of one of the calls.
C27_OverlappingRefreshesSettleConsistently ==
    AllRefreshesCompleted =>
        /\ getChildren(provider) = OrganizationOf(provider)
        /\ \E c \in DOMAIN provider.calls :
            getSelectedItems(provider) = provider.calls[c].allItems

C27_Witness ==
    /\ AllRefreshesCompleted
    /\ provider.overlapped
    /\ Len(provider.calls) = 2
    /\ provider.calls[1].allItems # provider.calls[2].allItems
    /\ getSelectedItems(provider) = provider.calls[1].allItems
    /\ Len(getSelectedItems(provider)) = 2
    /\ provider.calls[2].allItems # <<>>

FolderNodesOf(p) ==
    { p.organizedItems.folderMap.value[d] : d \in Range(p.organizedItems.folderMap.keys) }

FileChildrenOf(node) ==
    { node.children[i] : i \in { j \in DOMAIN node.children : ~node.children[j].isDirectory } }

\* C29: in the forest of a provider at rest, whatever the workspace folders,
\* the origin path of each directory node is the directory that directly
\* contains the origin path of each of its file children.
C29_FolderNodeContainsItsFiles ==
    AllRefreshesCompleted =>
        \A node \in FolderNodesOf(provider) :
            \A child \in FileChildrenOf(node) :
                dirnameAbs(provider.deletedItems[child.index].uri) = node.uri

====
